---------------------------- MODULE Spec2Model ----------------------------
(***************************************************************************)
(* A model of three parts of the ledger:                                   *)
(*   - the Ethereum bridge parameter store                                 *)
(*       crates/ethereum_bridge/src/storage/parameters.rs                  *)
(*   - the PGF inflation pass                                              *)
(*       crates/governance/src/pgf/inflation.rs                            *)
(*   - the IBC transfer dispatcher and its protocol context                *)
(*       crates/ibc/src/actions.rs                                         *)
(*                                                                         *)
(* SpecBridge drives the bridge parameter store, SpecPgf the inflation     *)
(* pass (which calls the IBC dispatcher), SpecCtx the capabilities of the  *)
(* IBC protocol context, SpecToml the TOML form of the bridge parameters.  *)
(* They share one set of variables; each leaves the other parts' variables *)
(* unchanged.                                                              *)
(***************************************************************************)
EXTENDS Integers, Sequences, FiniteSets, TLC

VARIABLES
    \* ---- bridge parameter store ----
    bstore,      \* the bridge's storage sub-space: key -> stored bytes
    vpStorage,   \* which bridge VP storages init_storage has initialised
    epoch,       \* the ledger's current epoch (read by is_bridge_active)
    bop,         \* the last bridge operation and what it returned
    \* ---- PGF / IBC ----
    balances,    \* native token balance of every account
    minted,      \* the native token's minted balance (total supply) key
    ibcStore,    \* what the IBC executor wrote: packet commitments, events
    payments,    \* the stored funding obligations, in storage order
    stewards,    \* the stored stewards, in storage order
    chainParams, \* pgf rates, epochs per year, epoch duration
    pass,        \* the running apply_inflation call: position and locals
    trace,       \* what the running (or last) pass did, in order (history)
    prevTrace,   \* what the pass before it did (history)
    clock,       \* the wall-clock readings of the latest IBC dispatch
    \* ---- IBC protocol context, called directly ----
    minter,      \* the native token's minter key: "none" when absent
    ctxOp,       \* the last call on the context and what it returned
    \* ---- TOML form of the bridge parameters ----
    toml         \* a parameter value, its TOML text, the value read back

bridgeVars == <<bstore, vpStorage, epoch, bop>>
pgfVars == <<balances, minted, ibcStore, payments, stewards, chainParams,
             pass, trace, prevTrace, clock>>
ctxVars == <<minter, ctxOp>>
tomlVars == <<toml>>
vars == <<bstore, vpStorage, epoch, bop, balances, minted, ibcStore,
          payments, stewards, chainParams, pass, trace, prevTrace, clock,
          minter, ctxOp, toml>>
\* what the bridge machine, and the PGF machine, leave alone
notBridgeVars == <<pgfVars, ctxVars, tomlVars>>
notPgfVars == <<bridgeVars, ctxVars, tomlVars>>

-----------------------------------------------------------------------------
(***************************************************************************)
(* Generic helpers.                                                        *)
(***************************************************************************)
Range(s) == {s[i] : i \in DOMAIN s}

-----------------------------------------------------------------------------
(***************************************************************************)
(* Borsh encoding, as `encode` and `StorageRead::read::<T>` use it.  A     *)
(* stored value is a sequence of bytes; a typed read decodes the whole     *)
(* slice and fails when the bytes are not an encoding of the type.         *)
(***************************************************************************)
Ok(v) == [tag |-> "Ok", val |-> <<v>>]
Err == [tag |-> "Err", val |-> <<>>]
IsOk(r) == r.tag = "Ok"
Val(r) == r.val[1]

\* n as k little-endian bytes
RECURSIVE LeBytes(_, _)
LeBytes(n, k) == IF k = 0 THEN <<>> ELSE <<n % 256>> \o LeBytes(n \div 256, k - 1)

\* little-endian bytes as a number
RECURSIVE LeValue(_)
LeValue(b) == IF b = <<>> THEN 0 ELSE Head(b) + 256 * LeValue(Tail(b))

\* n as big-endian bytes without leading zeroes (zero is one 0 byte)
RECURSIVE BeDigits(_)
BeDigits(n) == IF n < 256 THEN <<n>> ELSE BeDigits(n \div 256) \o <<n % 256>>

RECURSIVE BeValue(_)
BeValue(b) == IF b = <<>> THEN 0 ELSE 256 * BeValue(SubSeq(b, 1, Len(b) - 1)) + b[Len(b)]

EncodeU64(n) == LeBytes(n, 8)
DecodeU64(b) == IF Len(b) = 8 THEN Ok(LeValue(b)) ELSE Err

\* NonZeroU64: MinimumConfirmations and ContractVersion
EncodeNonZeroU64(n) == EncodeU64(n)
DecodeNonZeroU64(b) ==
    IF IsOk(DecodeU64(b)) /\ Val(DecodeU64(b)) # 0 THEN DecodeU64(b) ELSE Err

\* EthAddress: a [u8; 20], which is its own encoding
EncodeEthAddress(a) == a
DecodeEthAddress(b) == IF Len(b) = 20 THEN Ok(b) ELSE Err

\* UpgradeableContract {address, version}
EncodeContract(c) == EncodeEthAddress(c.address) \o EncodeNonZeroU64(c.version)
DecodeContract(b) ==
    IF Len(b) = 28 /\ IsOk(DecodeNonZeroU64(SubSeq(b, 21, 28)))
    THEN Ok([address |-> SubSeq(b, 1, 20),
             version |-> Val(DecodeNonZeroU64(SubSeq(b, 21, 28)))])
    ELSE Err

\* ethereum_structs::BlockHeight: the big-endian bytes as a Vec<u8>
EncodeBlockHeight(h) == LeBytes(Len(BeDigits(h)), 4) \o BeDigits(h)
DecodeBlockHeight(b) ==
    IF Len(b) >= 4 /\ LeValue(SubSeq(b, 1, 4)) = Len(b) - 4
    THEN Ok(BeValue(SubSeq(b, 5, Len(b))))
    ELSE Err

\* EthBridgeStatus: Disabled | Enabled(AtGenesis | AtEpoch(e))
Disabled == [status |-> "Disabled", since |-> 0]
EnabledAtGenesis == [status |-> "AtGenesis", since |-> 0]
EnabledAtEpoch(e) == [status |-> "AtEpoch", since |-> e]
EncodeStatus(s) ==
    IF s.status = "Disabled" THEN <<0>>
    ELSE IF s.status = "AtGenesis" THEN <<1, 0>>
    ELSE <<1, 1>> \o EncodeU64(s.since)
DecodeStatus(b) ==
    IF b = <<0>> THEN Ok(Disabled)
    ELSE IF b = <<1, 0>> THEN Ok(EnabledAtGenesis)
    ELSE IF Len(b) = 10 /\ SubSeq(b, 1, 2) = <<1, 1>>
         THEN Ok(EnabledAtEpoch(LeValue(SubSeq(b, 3, 10))))
    ELSE Err

EncodeBool(x) == IF x THEN <<1>> ELSE <<0>>
\* token::Amount: a 256-bit unsigned integer, four little-endian u64 words
EncodeAmount(n) == LeBytes(n, 32)
\* token::Denomination: a u8
EncodeDenom(d) == <<d>>

-----------------------------------------------------------------------------
(***************************************************************************)
(* The bridge's storage keys and the storage interface.                    *)
(***************************************************************************)
ParamKey(name) == <<"eth_bridge", <<>>, name>>
active_key == ParamKey("active")
min_confirmations_key == ParamKey("min_confirmations")
native_erc20_key == ParamKey("native_erc20")
bridge_contract_key == ParamKey("bridge_contract")
eth_start_height_key == ParamKey("eth_start_height")

\* whitelist::Key {asset, suffix}
WhitelistKey(asset, suffix) == <<"erc20", asset, suffix>>

ScalarKeys == {min_confirmations_key, native_erc20_key, bridge_contract_key,
               eth_start_height_key}

has_key(s, k) == k \in DOMAIN s
write_bytes(s, k, v) == [x \in DOMAIN s \cup {k} |-> IF x = k THEN v ELSE s[x]]
delete_key(s, k) == [x \in DOMAIN s \ {k} |-> s[x]]

\* StorageRead::read::<T>: Ok(None) for an absent key, Err for bytes that do
\* not decode, Ok(Some(v)) otherwise.  "None" is Ok with tag "None".
NoneVal == [tag |-> "None", val |-> <<>>]
Decode(k, b) ==
    IF k = active_key THEN DecodeStatus(b)
    ELSE IF k = min_confirmations_key THEN DecodeNonZeroU64(b)
    ELSE IF k = native_erc20_key THEN DecodeEthAddress(b)
    ELSE IF k = bridge_contract_key THEN DecodeContract(b)
    ELSE IF k = eth_start_height_key THEN DecodeBlockHeight(b)
    ELSE Err
StorageRead(s, k) == IF has_key(s, k) THEN Decode(k, s[k]) ELSE NoneVal

NATIVE_MAX_DECIMAL_PLACES == 6


-----------------------------------------------------------------------------
(***************************************************************************)
(* Bridge parameters: the values init_storage is called with.              *)
(***************************************************************************)
MaxBridgeWrites == 2  \* init_storage calls and raw writes in one behaviour
MaxEpoch == 1         \* last epoch the bridge model advances to

EthAddress(byte) == [i \in 1..20 |-> byte]
Wnam == EthAddress(42)
Dai == EthAddress(7)

Erc20WhitelistEntry(addr, amount, denom) ==
    [token_address |-> addr, token_cap |-> [amount |-> amount, denom |-> denom]]
DaiEntry == Erc20WhitelistEntry(Dai, 500, 18)
WnamEntry == Erc20WhitelistEntry(Wnam, 1000, NATIVE_MAX_DECIMAL_PLACES)
WnamBadEntry == Erc20WhitelistEntry(Wnam, 70000, 18)
DaiAgainEntry == Erc20WhitelistEntry(Dai, 700, 8)
WhitelistChoices ==
    { <<>>, <<DaiEntry>>, <<WnamEntry>>, <<WnamBadEntry>>,
      <<DaiEntry, WnamEntry>>, <<DaiEntry, WnamBadEntry>>,
      <<WnamBadEntry, DaiEntry>>, <<DaiEntry, DaiAgainEntry>> }

EthereumBridgeParams(h, m, wl, v) ==
    [eth_start_height |-> h,
     min_confirmations |-> m,
     erc20_whitelist |-> wl,
     contracts |-> [native_erc20 |-> Wnam,
                    bridge |-> [address |-> EthAddress(23), version |-> v]]]
ParamChoices ==
    { EthereumBridgeParams(h, mv[1], wl, mv[2]) :
        h \in {0, 300}, mv \in {<<1, 2>>, <<100, 1>>},
        wl \in WhitelistChoices }

\* EthereumOracleConfig::from(EthereumBridgeParams)
OracleConfigFrom(p) ==
    [eth_start_height |-> p.eth_start_height,
     min_confirmations |-> p.min_confirmations,
     contracts |-> p.contracts]

NoParams == EthereumBridgeParams(0, 1, <<>>, 1)
NoConfig ==
    [eth_start_height |-> 0, min_confirmations |-> 0,
     contracts |-> [native_erc20 |-> <<>>,
                    bridge |-> [address |-> <<>>, version |-> 0]]]

-----------------------------------------------------------------------------
(***************************************************************************)
(* EthereumBridgeParams::init_storage                                      *)
(***************************************************************************)
\* faulty variant: the denomination is written under the cap key
WriteWhitelistEntryDenomAsCap(s, e) ==
    LET s1 == write_bytes(s, WhitelistKey(e.token_address, "whitelisted"),
                          EncodeBool(TRUE))
        s2 == write_bytes(s1, WhitelistKey(e.token_address, "cap"),
                          EncodeAmount(e.token_cap.amount))
    IN  write_bytes(s2, WhitelistKey(e.token_address, "cap"),
                    EncodeDenom(e.token_cap.denom))
\* the three writes of one whitelist entry
WriteWhitelistEntry(s, e) ==
    LET s1 == write_bytes(s, WhitelistKey(e.token_address, "whitelisted"),
                          EncodeBool(TRUE))
        s2 == write_bytes(s1, WhitelistKey(e.token_address, "cap"),
                          EncodeAmount(e.token_cap.amount))
    IN  write_bytes(s2, WhitelistKey(e.token_address, "denom"),
                    EncodeDenom(e.token_cap.denom))

\* faulty variant: the check forgets to compare the address with native_erc20
NativeDenomMismatchAnyToken(e, native_erc20) ==
    e.token_cap.denom # NATIVE_MAX_DECIMAL_PLACES
\* the panic condition inside the whitelist loop
NativeDenomMismatch(e, native_erc20) ==
    /\ e.token_address = native_erc20
    /\ e.token_cap.denom # NATIVE_MAX_DECIMAL_PLACES

\* the loop over erc20_whitelist: stops at the first entry that panics
RECURSIVE WhitelistLoop(_, _, _)
WhitelistLoop(s, wl, native_erc20) ==
    IF wl = <<>> THEN [store |-> s, panicked |-> FALSE]
    ELSE IF NativeDenomMismatch(Head(wl), native_erc20)
         THEN [store |-> s, panicked |-> TRUE]
    ELSE WhitelistLoop(WriteWhitelistEntry(s, Head(wl)), Tail(wl), native_erc20)

\* faulty variant: the bridge contract is written under the native_erc20 key
WriteScalarsWrongKey(s, p) ==
    LET s1 == write_bytes(s, active_key, EncodeStatus(EnabledAtGenesis))
        s2 == write_bytes(s1, min_confirmations_key,
                          EncodeNonZeroU64(p.min_confirmations))
        s3 == write_bytes(s2, native_erc20_key,
                          EncodeEthAddress(p.contracts.bridge.address))
        s4 == write_bytes(s3, bridge_contract_key,
                          EncodeContract(p.contracts.bridge))
    IN  write_bytes(s4, eth_start_height_key,
                    EncodeBlockHeight(p.eth_start_height))
\* the five writes that precede the loop
WriteScalars(s, p) ==
    LET s1 == write_bytes(s, active_key, EncodeStatus(EnabledAtGenesis))
        s2 == write_bytes(s1, min_confirmations_key,
                          EncodeNonZeroU64(p.min_confirmations))
        s3 == write_bytes(s2, native_erc20_key,
                          EncodeEthAddress(p.contracts.native_erc20))
        s4 == write_bytes(s3, bridge_contract_key,
                          EncodeContract(p.contracts.bridge))
    IN  write_bytes(s4, eth_start_height_key,
                    EncodeBlockHeight(p.eth_start_height))

\* faulty variant: the whitelist in storage is replaced, not added to
init_storage_replacing(s, p) ==
    WhitelistLoop(
        WriteScalars([k \in {x \in DOMAIN s : x[1] # "erc20"} |-> s[k]], p),
        p.erc20_whitelist, p.contracts.native_erc20)
\* faulty variant: a panic leaves the storage as it was before the call
init_storage_all_or_nothing(s, p) ==
    LET r == WhitelistLoop(WriteScalars(s, p), p.erc20_whitelist,
                           p.contracts.native_erc20)
    IN  IF r.panicked THEN [store |-> s, panicked |-> TRUE] ELSE r
init_storage(s, p) ==
    WhitelistLoop(WriteScalars(s, p), p.erc20_whitelist,
                  p.contracts.native_erc20)


-----------------------------------------------------------------------------
(***************************************************************************)
(* EthereumOracleConfig::read                                              *)
(***************************************************************************)
\* EthBridgeQueries::is_bridge_active: reads the status under active_key and
\* compares it with the current epoch; it panics when the key cannot be read.
is_bridge_active(s, ep) ==
    LET r == StorageRead(s, active_key) IN
    IF ~IsOk(r) THEN "panic"
    ELSE IF Val(r).status = "AtGenesis" THEN "active"
    ELSE IF Val(r).status = "AtEpoch" /\ ep >= Val(r).since THEN "active"
    ELSE "inactive"

\* faulty variant: a missing key is not a panic: the read goes on with no value
must_read_key_lenient(s, k) ==
    LET r == StorageRead(s, k) IN
    IF r.tag = "Err" THEN [panic |-> "Could not read", val |-> <<>>]
    ELSE IF r.tag = "None" THEN [panic |-> "", val |-> <<0>>]
    ELSE [panic |-> "", val |-> r.val]
\* must_read_key: the value, or which panic
must_read_key(s, k) ==
    LET r == StorageRead(s, k) IN
    IF r.tag = "Err" THEN [panic |-> "Could not read", val |-> <<>>]
    ELSE IF r.tag = "None"
         THEN [panic |-> "only partially configured", val |-> <<>>]
    ELSE [panic |-> "", val |-> r.val]

\* the order in which read calls must_read_key
ReadOrder == <<min_confirmations_key, native_erc20_key, bridge_contract_key,
               eth_start_height_key>>

ReadResult(tag, cfg, msg, keys) ==
    [tag |-> tag, cfg |-> cfg, msg |-> msg, keysRead |-> keys]

\* lines 302-322: the four reads behind the active check
ReadConfigKeys(s) ==
    LET got == [i \in 1..4 |-> must_read_key(s, ReadOrder[i])]
        bad == {i \in 1..4 : got[i].panic # ""}
        first == CHOOSE i \in bad : \A j \in bad : i <= j
    IN  IF bad # {}
        THEN ReadResult("Panic", NoConfig, got[first].panic,
                        {active_key} \cup {ReadOrder[j] : j \in 1..first})
        ELSE ReadResult("Some",
                        [eth_start_height |-> got[4].val[1],
                         min_confirmations |-> got[1].val[1],
                         contracts |-> [native_erc20 |-> got[2].val[1],
                                        bridge |-> got[3].val[1]]],
                        "", {active_key} \cup ScalarKeys)

\* faulty variant: is_bridge_active is asked without the has_key check
EthereumOracleConfig_read_unchecked(s, ep) ==
    IF is_bridge_active(s, ep) = "panic"
    THEN ReadResult("Panic", NoConfig, "active key", {active_key})
    ELSE IF is_bridge_active(s, ep) = "inactive"
         THEN ReadResult("None", NoConfig, "", {active_key})
    ELSE ReadConfigKeys(s)
EthereumOracleConfig_read(s, ep) ==
    IF ~has_key(s, active_key) THEN ReadResult("None", NoConfig, "", {})
    ELSE IF is_bridge_active(s, ep) = "panic"
         THEN ReadResult("Panic", NoConfig, "active key", {active_key})
    ELSE IF is_bridge_active(s, ep) = "inactive"
         THEN ReadResult("None", NoConfig, "", {active_key})
    ELSE ReadConfigKeys(s)

\* faulty variant: the address is looked up only behind the enabled flag
read_native_erc20_address_gated(s) ==
    IF ~has_key(s, active_key)
    THEN ReadResult("Err", <<>>, "not initialized", {active_key})
    ELSE LET r == StorageRead(s, native_erc20_key) IN
         IF r.tag = "Err"
         THEN ReadResult("Err", <<>>, "Failed to read storage",
                         {native_erc20_key})
         ELSE IF r.tag = "None"
              THEN ReadResult("Err", <<>>, "not initialized",
                              {native_erc20_key})
         ELSE ReadResult("Ok", r.val[1], "", {native_erc20_key})
\* read_native_erc20_address: one read of native_erc20_key; the three arms of
\* the match.  In an Ok result the cfg field holds the address.
read_native_erc20_address(s) ==
    LET r == StorageRead(s, native_erc20_key) IN
    IF r.tag = "Err"
    THEN ReadResult("Err", <<>>, "Failed to read storage", {native_erc20_key})
    ELSE IF r.tag = "None"
         THEN ReadResult("Err", <<>>, "not initialized", {native_erc20_key})
    ELSE ReadResult("Ok", r.val[1], "", {native_erc20_key})

-----------------------------------------------------------------------------
(***************************************************************************)
(* The bridge parameter store as a state machine.                          *)
(***************************************************************************)
NoResult == ReadResult("", NoConfig, "", {})

\* bop: the last operation (op), the parameters of the latest init_storage
\* call (params), whether storage was written since that call (fresh is TRUE
\* when it was not), how the operation ended, what a read returned, the
\* write that was done, and the number of writing operations so far.
BridgeOp(op, params, fresh, outcome, result, key, n) ==
    [op |-> op, params |-> params, fresh |-> fresh, outcome |-> outcome,
     result |-> result, key |-> key, nwrites |-> n]

\* the bridge machine's variables before anything ran on the storage
BridgeIdle ==
    /\ bstore = <<>>
    /\ vpStorage = {}
    /\ epoch = 0
    /\ bop = BridgeOp("none", NoParams, FALSE, "ok", NoResult, <<>>, 0)

\* a panic unwinds the caller: nothing runs on this storage afterwards
BridgeRunning == bop.outcome # "panic"

InitStorage(p) ==
    /\ BridgeRunning
    /\ bop.nwrites < MaxBridgeWrites
    /\ LET r == init_storage(bstore, p) IN
         /\ bstore' = r.store
         /\ vpStorage' = IF r.panicked THEN vpStorage
                         ELSE vpStorage \cup {"ethereum_bridge", "bridge_pool"}
         /\ bop' = BridgeOp("init_storage", p, TRUE,
                            IF r.panicked THEN "panic" ELSE "ok",
                            NoResult, <<>>, bop.nwrites + 1)
    /\ UNCHANGED <<epoch, notBridgeVars>>

\* values another writer may leave under a bridge key: bytes that decode to
\* nothing (the test's vec![42, 1, 2, 3, 4]), a zero where the type excludes
\* it, and the other values of the bridge status
RawValues(k) ==
    IF k = active_key
    THEN {<<42, 1, 2, 3, 4>>, EncodeStatus(Disabled),
          EncodeStatus(EnabledAtEpoch(1)), EncodeStatus(EnabledAtGenesis)}
    ELSE IF k = min_confirmations_key
    THEN {<<42, 1, 2, 3, 4>>, EncodeU64(0), EncodeNonZeroU64(100)}
    ELSE {<<42, 1, 2, 3, 4>>}

\* write_bytes by a caller other than init_storage
RawWrite(k, v) ==
    /\ BridgeRunning
    /\ bop.nwrites < MaxBridgeWrites
    /\ bstore' = write_bytes(bstore, k, v)
    /\ bop' = BridgeOp("write_bytes", bop.params, FALSE, "ok", NoResult, k,
                       bop.nwrites + 1)
    /\ UNCHANGED <<vpStorage, epoch, notBridgeVars>>

DeleteKey(k) ==
    /\ BridgeRunning
    /\ bop.nwrites < MaxBridgeWrites
    /\ has_key(bstore, k)
    /\ bstore' = delete_key(bstore, k)
    /\ bop' = BridgeOp("delete", bop.params, FALSE, "ok", NoResult, k,
                       bop.nwrites + 1)
    /\ UNCHANGED <<vpStorage, epoch, notBridgeVars>>

AdvanceEpoch ==
    /\ BridgeRunning
    /\ epoch < MaxEpoch
    /\ epoch' = epoch + 1
    /\ bop' = BridgeOp("epoch", bop.params, bop.fresh, "ok", NoResult, <<>>,
                       bop.nwrites)
    /\ UNCHANGED <<bstore, vpStorage, notBridgeVars>>

ReadOracleConfig ==
    /\ BridgeRunning
    /\ bop.op # "read"
    /\ LET r == EthereumOracleConfig_read(bstore, epoch) IN
         bop' = BridgeOp("read", bop.params, bop.fresh,
                         IF r.tag = "Panic" THEN "panic" ELSE "ok", r, <<>>,
                         bop.nwrites)
    /\ UNCHANGED <<bstore, vpStorage, epoch, notBridgeVars>>

ReadNativeErc20Address ==
    /\ BridgeRunning
    /\ bop.op # "read_native_erc20_address"
    /\ bop' = BridgeOp("read_native_erc20_address", bop.params, bop.fresh,
                       "ok", read_native_erc20_address(bstore), <<>>,
                       bop.nwrites)
    /\ UNCHANGED <<bstore, vpStorage, epoch, notBridgeVars>>

BridgeKeys == {active_key} \cup ScalarKeys

BridgeNext ==
    \/ \E p \in ParamChoices : InitStorage(p)
    \/ \E k \in BridgeKeys : \E v \in RawValues(k) : RawWrite(k, v)
    \/ \E k \in BridgeKeys : DeleteKey(k)
    \/ AdvanceEpoch
    \/ ReadOracleConfig
    \/ ReadNativeErc20Address



-----------------------------------------------------------------------------
(***************************************************************************)
(* Fixed-point decimals (Dec) and token amounts.  The widths are scaled    *)
(* down: Dec keeps two decimal places and an amount one, so that an amount *)
(* converts to a Dec by a factor of ten, as 10^(12-6) does in the ledger.  *)
(* MAX_AMOUNT and DEC_MAX stand for the largest values of the two types.   *)
(***************************************************************************)
DEC_SCALE == 100
AMOUNT_TO_DEC == 10
MAX_AMOUNT == 3000
DEC_MAX == 1000000

DecFromU64(n) == n * DEC_SCALE
DecFromAmount(a) == a * AMOUNT_TO_DEC
\* token::Amount::from(Dec): truncates
AmountFromDec(d) == d \div AMOUNT_TO_DEC
\* Dec / Dec and Dec * Dec: both truncate
DecDiv(a, b) == (a * DEC_SCALE) \div b
DecMul(a, b) == (a * b) \div DEC_SCALE
\* Dec::checked_mul(..).unwrap_or_default(): zero when not representable
DecCheckedMulOrDefault(a, b) == IF a * b > DEC_MAX THEN 0 ELSE (a * b) \div DEC_SCALE

-----------------------------------------------------------------------------
(***************************************************************************)
(* The token primitives of namada_trans_token.  A storage state is the     *)
(* record [balances, minted, ibc]; each primitive returns whether it       *)
(* succeeded and the storage it leaves.                                    *)
(***************************************************************************)
PGF == "pgf"              \* super::ADDRESS, the treasury account
IbcEscrow == "ibc_escrow" \* the account that holds tokens sent over a channel
Accounts == {PGF, IbcEscrow, "A", "B"}

Store(b, m, i) == [balances |-> b, minted |-> m, ibc |-> i]
Outcome(ok, st) == [ok |-> ok, store |-> st]

\* credit_tokens: adds to the balance and to the minted total; fails, writing
\* nothing, when either sum overflows
credit_tokens(st, dest, amount) ==
    IF st.balances[dest] + amount > MAX_AMOUNT \/ st.minted + amount > MAX_AMOUNT
    THEN Outcome(FALSE, st)
    ELSE Outcome(TRUE, [st EXCEPT !.balances[dest] = @ + amount,
                                  !.minted = @ + amount])

\* transfer: moves amount from src to dest; fails, writing nothing, when the
\* source balance is too small or the destination balance overflows
transfer(st, src, dest, amount) ==
    IF amount = 0 THEN Outcome(TRUE, st)
    ELSE IF st.balances[src] < amount THEN Outcome(FALSE, st)
    ELSE IF src # dest /\ st.balances[dest] + amount > MAX_AMOUNT
         THEN Outcome(FALSE, st)
    ELSE Outcome(TRUE, [st EXCEPT !.balances =
                            [[@ EXCEPT ![src] = @ - amount]
                                EXCEPT ![dest] = @ + amount]])

-----------------------------------------------------------------------------
(***************************************************************************)
(* IbcProtocolContext: the capabilities the IBC executor is given.         *)
(***************************************************************************)
\* emit_ibc_event: appends to the write log's event buffer, always Ok
emit_ibc_event(st, event) ==
    Outcome(TRUE, [st EXCEPT !.ibc.events = Append(@, event)])

\* faulty variant: the buffer is returned without the filter
get_ibc_events_unfiltered(st, event_type) == st.ibc.events
\* get_ibc_events: the buffered events of the given type, in order
get_ibc_events(st, event_type) ==
    SelectSeq(st.ibc.events, LAMBDA e : e.event_type = event_type)

\* transfer_token: token::transfer on the same storage
transfer_token(st, src, dest, amount) == transfer(st, src, dest, amount)

-----------------------------------------------------------------------------
(***************************************************************************)
(* transfer_over_ibc                                                       *)
(***************************************************************************)
MaxNow == 2        \* wall-clock readings are 0..MaxNow
TM_TIME_MAX == 11  \* the last time tendermint's Time can hold

NoMsg == [port_id_on_a |-> "", chan_id_on_a |-> "",
          packet_data |-> [token |-> [denom |-> "", amount |-> 0],
                           sender |-> "", receiver |-> "", memo |-> ""],
          timeout_height_on_b |-> "", timeout_timestamp_on_b |-> 0]

\* the MsgTransfer built from the arguments and one clock reading
MsgTransfer(token, source, target, timeout_timestamp) ==
    [port_id_on_a |-> target.port_id,
     chan_id_on_a |-> target.channel_id,
     packet_data |-> [token |-> [denom |-> token, amount |-> target.amount],
                      sender |-> source,
                      receiver |-> target.target,
                      memo |-> ""],
     timeout_height_on_b |-> "Never",
     timeout_timestamp_on_b |-> timeout_timestamp]

\* IbcActions::execute on a transfer message: the packet is validated against
\* the channel, the coins are escrowed through transfer_token, the packet
\* commitment is stored and the send_packet event emitted.  `late` says that
\* a step after the escrow returns an error; the executor then returns it,
\* and what it wrote through the context stays written.
IbcExecute(st, msg, channels, late) ==
    IF msg.chan_id_on_a \notin channels THEN Outcome(FALSE, st)
    ELSE
        LET esc == transfer_token(st, msg.packet_data.sender, IbcEscrow,
                                  msg.packet_data.token.amount)
        IN  IF ~esc.ok THEN Outcome(FALSE, st)
            ELSE IF late THEN Outcome(FALSE, esc.store)
            ELSE emit_ibc_event(
                    [esc.store EXCEPT !.ibc.commitments = @ + 1],
                    [event_type |-> "send_packet",
                     receiver |-> msg.packet_data.receiver,
                     amount |-> msg.packet_data.token.amount])

\* transfer_over_ibc: [ok, store, msg]; msg is NoMsg when none was built
IbcResult(o, msg) == [ok |-> o.ok, store |-> o.store, msg |-> msg]

\* faulty variant: the clock is read again for the message, one tick later
transfer_over_ibc_resampled(st, params, token, source, target, now, late) ==
    IF ~params.epoch_duration.present THEN IbcResult(Outcome(FALSE, st), NoMsg)
    ELSE IF now + params.epoch_duration.min_duration > TM_TIME_MAX
         THEN IbcResult(Outcome(FALSE, st), NoMsg)
    ELSE LET msg == MsgTransfer(token, source, target,
                                now + 1 + params.epoch_duration.min_duration)
         IN  IbcResult(IbcExecute(st, msg, params.channels, late), msg)
transfer_over_ibc(st, params, token, source, target, now, late) ==
    IF ~params.epoch_duration.present THEN IbcResult(Outcome(FALSE, st), NoMsg)
    ELSE IF now + params.epoch_duration.min_duration > TM_TIME_MAX
         THEN IbcResult(Outcome(FALSE, st), NoMsg)
    ELSE LET msg == MsgTransfer(token, source, target,
                                now + params.epoch_duration.min_duration)
         IN  IbcResult(IbcExecute(st, msg, params.channels, late), msg)


-----------------------------------------------------------------------------
(***************************************************************************)
(* apply_inflation: the computations                                       *)
(***************************************************************************)
NativeToken == "nam"

\* faulty variant: the yearly rate is applied first and the result divided
PgfInflationAmountYearlyFirst(total_tokens, params) ==
    AmountFromDec(
        DecDiv(DecMul(DecFromAmount(total_tokens), params.pgf_inflation_rate),
               DecFromU64(params.epochs_per_year)))
\* pgf_inflation_amount: the rate is divided by the epochs per year first,
\* then applied to the total, then truncated to an amount
PgfInflationAmount(total_tokens, params) ==
    AmountFromDec(
        DecMul(DecFromAmount(total_tokens),
               DecDiv(params.pgf_inflation_rate,
                      DecFromU64(params.epochs_per_year))))

\* faulty variant: the treasury's rate is used for the stewards
PgfStewardInflationWrongRate(total_tokens, params) ==
    DecMul(DecFromAmount(total_tokens),
           DecDiv(params.pgf_inflation_rate,
                  DecFromU64(params.epochs_per_year)))
\* pgf_steward_inflation (a Dec)
PgfStewardInflation(total_tokens, params) ==
    DecMul(DecFromAmount(total_tokens),
           DecDiv(params.stewards_inflation_rate,
                  DecFromU64(params.epochs_per_year)))

\* faulty variant: the product is taken without the check
RewardAmountUnchecked(pgf_steward_inflation, percentage) ==
    AmountFromDec(DecMul(pgf_steward_inflation, percentage))
\* reward_amount of one (address, percentage) entry
RewardAmount(pgf_steward_inflation, percentage) ==
    AmountFromDec(DecCheckedMulOrDefault(pgf_steward_inflation, percentage))

\* pgf_fundings.sort_by(|a, b| a.id.cmp(&b.id)): a stable insertion sort
RECURSIVE InsertById(_, _)
InsertById(f, sorted) ==
    IF sorted = <<>> THEN <<f>>
    ELSE IF f.id < Head(sorted).id THEN <<f>> \o sorted
    ELSE <<Head(sorted)>> \o InsertById(f, Tail(sorted))
\* faulty variant: the comparison is the other way round
RECURSIVE SortByIdDescending(_)
SortByIdDescending(fs) ==
    IF fs = <<>> THEN <<>>
    ELSE LET rest == SortByIdDescending(SubSeq(fs, 1, Len(fs) - 1))
             f == fs[Len(fs)]
             n == Cardinality({i \in DOMAIN rest : rest[i].id >= f.id})
         IN  SubSeq(rest, 1, n) \o <<f>> \o SubSeq(rest, n + 1, Len(rest))

RECURSIVE SortById(_)
SortById(fs) ==
    IF fs = <<>> THEN <<>>
    ELSE InsertById(fs[Len(fs)], SortById(SubSeq(fs, 1, Len(fs) - 1)))

\* the stewards whose reward distribution has an entry: the inner loop does
\* nothing for the others
RECURSIVE WithEntries(_)
WithEntries(ss) ==
    IF ss = <<>> THEN <<>>
    ELSE IF DOMAIN Head(ss).reward_distribution = {} THEN WithEntries(Tail(ss))
    ELSE <<Head(ss)>> \o WithEntries(Tail(ss))

-----------------------------------------------------------------------------
(***************************************************************************)
(* The stored obligations, stewards and parameters tried.                  *)
(***************************************************************************)
MaxPasses == 2   \* epoch passes in one behaviour

Internal(target, amount) ==
    [kind |-> "Internal", target |-> target, amount |-> amount,
     port_id |-> "", channel_id |-> ""]
Ibc(target, amount, port, channel) ==
    [kind |-> "Ibc", target |-> target, amount |-> amount,
     port_id |-> port, channel_id |-> channel]
Funding(id, detail) == [id |-> id, detail |-> detail]

F1 == Funding(1, Internal("A", 60))
F2 == Funding(2, Ibc("cosmos1r", 50, "transfer", "channel-0"))
F3 == Funding(3, Internal("B", 90))
PaymentChoices ==
    { <<>>, <<F1>>, <<F2>>, <<F3, F1>>, <<F2, F1>>, <<F3, F2>>,
      <<F1, F2, F3>>, <<F3, F1, F2>>, <<F2, F3, F1>> }

Steward(address, dist) == [address |-> address, reward_distribution |-> dist]
S1 == Steward("S1", ("A" :> 60) @@ ("B" :> 40))
S2 == Steward("S2", ("A" :> 33))
S3 == Steward("S3", <<>>)
S4 == Steward("S4", ("B" :> 5000))
S5 == Steward("S5", (PGF :> 50))   \* a steward that rewards the treasury
S6 == Steward("S6", ("B" :> 100))
StewardChoices ==
    { <<>>, <<S1>>, <<S3, S1, S2>>, <<S4, S1>>, <<S5>>, <<S1, S6>>, <<S4>> }

ChainParams(duration_present, channels) ==
    [pgf_inflation_rate |-> 10,
     stewards_inflation_rate |-> 6,
     epochs_per_year |-> 3,
     epoch_duration |-> [present |-> duration_present, min_duration |-> 10],
     channels |-> channels]
ChainParamChoices ==
    { ChainParams(TRUE, {"channel-0"}), ChainParams(TRUE, {}),
      ChainParams(FALSE, {"channel-0"}) }

MintedChoices == {2500, 2890, 2950}
TreasuryChoices == {0, 150}

-----------------------------------------------------------------------------
(***************************************************************************)
(* apply_inflation as a state machine.  pass.pc is the position in the     *)
(* function: "idle" (not running), "fundings" (in the loop over            *)
(* pgf_fundings), "stewards" (in the loops over the stewards).             *)
(***************************************************************************)
CurStore == Store(balances, minted, ibcStore)

\* one entry of the trace: what was attempted, how it ended, and the storage
\* before and after
Entry(kind, id, target, amount, ok, pre, post, msg) ==
    [kind |-> kind, id |-> id, target |-> target, amount |-> amount,
     ok |-> ok, pre |-> pre, post |-> post, msg |-> msg]

Pass(pc, no, total_tokens, fundings, stewardsLeft, entriesLeft, inflation, result) ==
    [pc |-> pc, no |-> no, total_tokens |-> total_tokens,
     pgf_fundings |-> fundings, stewards |-> stewardsLeft,
     entries |-> entriesLeft, pgf_steward_inflation |-> inflation,
     result |-> result]

-----------------------------------------------------------------------------
(***************************************************************************)
(* IbcProtocolContext called directly: mint_token, handle_masp_tx and the  *)
(* event buffer.  The storage the context works on is the record           *)
(* [balances, minted, ibc, minter].                                        *)
(***************************************************************************)
MaxCtxCalls == 3   \* writing calls on the context in one behaviour

IbcInternal == "ibc"   \* Address::Internal(InternalAddress::Ibc)
CtxStore(b, mt, i, mk) ==
    [balances |-> b, minted |-> mt, ibc |-> i, minter |-> mk]

\* faulty variant: the minter key is written before the credit is tried
mint_token_minter_first(st, target, token, amount) ==
    LET w == [st EXCEPT !.minter = IbcInternal]
        c == credit_tokens(w, target, amount)
    IN  IF ~c.ok THEN Outcome(FALSE, w) ELSE Outcome(TRUE, c.store)
\* mint_token: credit_tokens(..)?, then the minter key is written
mint_token(st, target, token, amount) ==
    LET c == credit_tokens(st, target, amount) IN
    IF ~c.ok THEN Outcome(FALSE, st)
    ELSE Outcome(TRUE, [c.store EXCEPT !.minter = IbcInternal])

\* faulty variant: the call does nothing and returns Ok
handle_masp_tx_noop(st, shielded, pin_key) ==
    [outcome |-> "ok", store |-> st]
\* handle_masp_tx: unimplemented!(..), a panic before anything else
handle_masp_tx(st, shielded, pin_key) ==
    [outcome |-> "panic", store |-> st]

\* the events the executor may emit
IbcEvent(event_type, receiver, amount) ==
    [event_type |-> event_type, receiver |-> receiver, amount |-> amount]
EventChoices ==
    { IbcEvent("send_packet", "cosmos1r", 50),
      IbcEvent("send_packet", "cosmos1q", 7),
      IbcEvent("write_acknowledgement", "A", 7) }
EventTypes == {"send_packet", "write_acknowledgement", "timeout_packet"}

\* ctxOp: the last call (op) with its arguments, how it ended ("ok", "err",
\* "panic"), what get_ibc_events returned, the storage before the call, the
\* events emitted so far and the number of writing calls so far.
CtxCall(op, args, outcome, result, pre, emitted, n) ==
    [op |-> op, args |-> args, outcome |-> outcome, result |-> result,
     pre |-> pre, emitted |-> emitted, n |-> n]
NoCtxOp ==
    CtxCall("none", <<>>, "ok", <<>>,
            CtxStore(<<>>, 0, [commitments |-> 0, events |-> <<>>], "none"),
            {}, 0)
CurCtxStore == CtxStore(balances, minted, ibcStore, minter)
SetCtxStore(st) ==
    /\ balances' = st.balances
    /\ minted' = st.minted
    /\ ibcStore' = st.ibc
    /\ minter' = st.minter
\* a panic unwinds the caller: nothing runs on the context afterwards
CtxRunning == ctxOp.outcome # "panic"
\* what no call on the context touches
ctxFrame == <<payments, stewards, chainParams, pass, trace, prevTrace, clock,
              bridgeVars, tomlVars>>

MintToken(target, amount) ==
    /\ CtxRunning
    /\ ctxOp.n < MaxCtxCalls
    /\ LET r == mint_token(CurCtxStore, target, NativeToken, amount) IN
         /\ SetCtxStore(r.store)
         /\ ctxOp' = CtxCall("mint_token", <<target, amount>>,
                             IF r.ok THEN "ok" ELSE "err", <<>>,
                             CurCtxStore, ctxOp.emitted, ctxOp.n + 1)
    /\ UNCHANGED ctxFrame

HandleMaspTx(shielded, pin_key) ==
    /\ CtxRunning
    /\ LET r == handle_masp_tx(CurCtxStore, shielded, pin_key) IN
         /\ SetCtxStore(r.store)
         /\ ctxOp' = CtxCall("handle_masp_tx", <<shielded, pin_key>>,
                             r.outcome, <<>>, CurCtxStore, ctxOp.emitted,
                             ctxOp.n)
    /\ UNCHANGED ctxFrame

EmitIbcEvent(event) ==
    /\ CtxRunning
    /\ ctxOp.n < MaxCtxCalls
    /\ LET r == emit_ibc_event(CurCtxStore, event) IN
         /\ SetCtxStore(r.store)
         /\ ctxOp' = CtxCall("emit_ibc_event", <<event>>,
                             IF r.ok THEN "ok" ELSE "err", <<>>,
                             CurCtxStore, ctxOp.emitted \cup {event},
                             ctxOp.n + 1)
    /\ UNCHANGED ctxFrame

GetIbcEvents(event_type) ==
    /\ CtxRunning
    /\ ctxOp.op # "get_ibc_events"
    /\ ctxOp' = CtxCall("get_ibc_events", <<event_type>>, "ok",
                        get_ibc_events(CurCtxStore, event_type),
                        CurCtxStore, ctxOp.emitted, ctxOp.n)
    /\ UNCHANGED <<balances, minted, ibcStore, minter, ctxFrame>>

CtxNext ==
    \/ \E target \in {"A", "B"} : \E amount \in {0, 5, 20} :
          MintToken(target, amount)
    \/ \E shielded \in {"tx1", "tx2"} : \E pin_key \in {"none", "pin"} :
          HandleMaspTx(shielded, pin_key)
    \/ \E event \in EventChoices : EmitIbcEvent(event)
    \/ \E event_type \in EventTypes : GetIbcEvents(event_type)

-----------------------------------------------------------------------------
(***************************************************************************)
(* The TOML form of EthereumBridgeParams (toml::to_string and              *)
(* toml::from_str through the serde derives of parameters.rs).  A text is  *)
(* a sequence of lines: `key = value`, a table header `[a.b]`, or an       *)
(* array-of-tables header `[[a]]`.  A value is an integer in decimal       *)
(* digits, a string of characters, or the empty array.  The integers are   *)
(* scaled down: a u64 is 31 bits wide here and TOML's signed 64-bit        *)
(* integer 30 bits.                                                        *)
(***************************************************************************)
U64_MAX == 2147483647        \* u64::MAX, scaled down
TOML_INT_MAX == 1073741823   \* the largest TOML integer (i64::MAX), scaled down

\* n in the digits of the base, most significant first
RECURSIVE Digits(_, _)
Digits(n, base) ==
    IF n < base THEN <<n>> ELSE Append(Digits(n \div base, base), n % base)
\* the number a sequence of digits stands for
RECURSIVE DigitsValue(_, _)
DigitsValue(ds, base) ==
    IF ds = <<>> THEN 0
    ELSE DigitsValue(SubSeq(ds, 1, Len(ds) - 1), base) * base + ds[Len(ds)]

TomlValue(t, body) == [t |-> t, body |-> body]
TomlInteger(n) == TomlValue("integer", Digits(n, 10))
TomlString(chars) == TomlValue("string", chars)
TomlEmptyArray == TomlValue("array", <<>>)

\* an integer value read as a u64: TOML holds no integer above its largest
ParseTomlU64(v) ==
    IF v.t # "integer" \/ Len(v.body) > 10 THEN Err
    ELSE IF Len(v.body) = 10 /\ v.body[1] > 1 THEN Err
    ELSE IF DigitsValue(SubSeq(v.body, 1, Len(v.body) - 1), 10)
              > (TOML_INT_MAX - v.body[Len(v.body)]) \div 10
         THEN Err
    ELSE Ok(DigitsValue(v.body, 10))
\* NonZeroU64 (MinimumConfirmations, ContractVersion): zero is refused
ParseTomlNonZeroU64(v) ==
    LET r == ParseTomlU64(v) IN
    IF IsOk(r) /\ Val(r) = 0 THEN Err ELSE r

\* EthAddress as a string: two hex digits for each of the 20 bytes
RECURSIVE HexOfBytes(_)
HexOfBytes(b) ==
    IF b = <<>> THEN <<>>
    ELSE <<Head(b) \div 16, Head(b) % 16>> \o HexOfBytes(Tail(b))
RECURSIVE BytesOfHex(_)
BytesOfHex(h) ==
    IF h = <<>> THEN <<>>
    ELSE <<16 * h[1] + h[2]>> \o BytesOfHex(SubSeq(h, 3, Len(h)))
TomlEthAddress(a) == TomlString(HexOfBytes(a))
ParseTomlEthAddress(v) ==
    IF v.t # "string" \/ Len(v.body) # 40 THEN Err
    ELSE Ok(BytesOfHex(v.body))

\* ethereum_structs::BlockHeight (a Uint256) as a string of hex digits
TomlBlockHeight(h) == TomlString(Digits(h, 16))
ParseTomlBlockHeight(v) ==
    IF v.t # "string" \/ v.body = <<>> THEN Err
    ELSE Ok(DigitsValue(v.body, 16))

\* DenominatedAmount as a string: the decimal digits of the raw amount, at
\* least denom + 1 of them, with the point before the last denom digits.
\* The character 10 stands for the point.
RECURSIVE PadLeft(_, _)
PadLeft(ds, n) == IF Len(ds) >= n THEN ds ELSE PadLeft(<<0>> \o ds, n)
TomlDenominatedAmount(c) ==
    LET ds == PadLeft(Digits(c.amount, 10), c.denom + 1)
        k == Len(ds) - c.denom
    IN  TomlString(IF c.denom = 0 THEN ds
                   ELSE SubSeq(ds, 1, k) \o <<10>> \o SubSeq(ds, k + 1, Len(ds)))
ParseTomlDenominatedAmount(v) ==
    IF v.t # "string" THEN Err
    ELSE LET points == {i \in DOMAIN v.body : v.body[i] = 10}
             ds == SelectSeq(v.body, LAMBDA ch : ch # 10)
         IN  IF Cardinality(points) > 1 \/ ds = <<>> THEN Err
             ELSE Ok([amount |-> DigitsValue(ds, 10),
                      denom |-> IF points = {} THEN 0
                                ELSE Len(v.body) - (CHOOSE i \in points : TRUE)])

\* ---- toml::to_string ----
NoTomlValue == TomlValue("", <<>>)
TomlLine(line, path, key, value) ==
    [line |-> line, path |-> path, key |-> key, value |-> value]
KeyValue(key, value) == TomlLine("key_value", <<>>, key, value)
TableHeader(path) == TomlLine("table", path, "", NoTomlValue)
ArrayTableHeader(path) == TomlLine("array_table", path, "", NoTomlValue)

\* the order of the fields in the struct declarations
Erc20WhitelistEntryFields == <<"token_address", "token_cap">>
UpgradeableContractFields == <<"address", "version">>
ContractsFields == <<"native_erc20", "bridge">>
\* faulty variant: the whitelist is declared first
EthereumBridgeParamsFieldsWhitelistFirst ==
    <<"erc20_whitelist", "eth_start_height", "min_confirmations", "contracts">>
EthereumBridgeParamsFields ==
    <<"eth_start_height", "min_confirmations", "erc20_whitelist", "contracts">>

\* what one field serializes to: its lines, whether it is a plain value
\* (not a table or an array of tables), whether the serializer failed in it
Item(simple, lines, err) == [simple |-> simple, lines |-> lines, err |-> err]
ValueItem(key, value) == Item(TRUE, <<KeyValue(key, value)>>, FALSE)
RECURSIVE ConcatLines(_)
ConcatLines(items) ==
    IF items = <<>> THEN <<>>
    ELSE Head(items).lines \o ConcatLines(Tail(items))
\* a struct: its fields in declaration order.  The serializer fails when a
\* plain value comes after a table of the same struct (ValueAfterTable).
TomlFields(items) ==
    [err |-> \/ \E i \in DOMAIN items : items[i].err
             \/ \E i, j \in DOMAIN items :
                   i < j /\ ~items[i].simple /\ items[j].simple,
     lines |-> ConcatLines(items)]
TableItem(path, fields) ==
    Item(FALSE, <<TableHeader(path)>> \o fields.lines, fields.err)

UpgradeableContractToml(c) ==
    TomlFields([i \in DOMAIN UpgradeableContractFields |->
        IF UpgradeableContractFields[i] = "address"
        THEN ValueItem("address", TomlEthAddress(c.address))
        ELSE ValueItem("version", TomlInteger(c.version))])
ContractsToml(cs) ==
    TomlFields([i \in DOMAIN ContractsFields |->
        IF ContractsFields[i] = "native_erc20"
        THEN ValueItem("native_erc20", TomlEthAddress(cs.native_erc20))
        ELSE TableItem(<<"contracts", "bridge">>,
                       UpgradeableContractToml(cs.bridge))])
Erc20WhitelistEntryToml(e) ==
    TomlFields([i \in DOMAIN Erc20WhitelistEntryFields |->
        IF Erc20WhitelistEntryFields[i] = "token_address"
        THEN ValueItem("token_address", TomlEthAddress(e.token_address))
        ELSE ValueItem("token_cap", TomlDenominatedAmount(e.token_cap))])
\* a Vec of structs: `key = []` when empty, else one [[key]] table per entry
WhitelistItem(wl) ==
    IF wl = <<>> THEN ValueItem("erc20_whitelist", TomlEmptyArray)
    ELSE LET entries == [i \in DOMAIN wl |->
                 Item(FALSE,
                      <<ArrayTableHeader(<<"erc20_whitelist">>)>>
                          \o Erc20WhitelistEntryToml(wl[i]).lines,
                      Erc20WhitelistEntryToml(wl[i]).err)]
         IN  Item(FALSE, ConcatLines(entries),
                  \E i \in DOMAIN entries : entries[i].err)
EthereumBridgeParamsToml(p) ==
    TomlFields([i \in DOMAIN EthereumBridgeParamsFields |->
        LET f == EthereumBridgeParamsFields[i] IN
        IF f = "eth_start_height"
        THEN ValueItem(f, TomlBlockHeight(p.eth_start_height))
        ELSE IF f = "min_confirmations"
        THEN ValueItem(f, TomlInteger(p.min_confirmations))
        ELSE IF f = "erc20_whitelist" THEN WhitelistItem(p.erc20_whitelist)
        ELSE TableItem(<<"contracts">>, ContractsToml(p.contracts))])

\* toml::to_string(&config): the text, or Err
toml_to_string(p) ==
    LET r == EthereumBridgeParamsToml(p) IN
    IF r.err THEN Err ELSE Ok(r.lines)

\* ---- toml::from_str ----
\* the table a line belongs to: that of the last header before it, and for an
\* array of tables the number of the entry
SectionOf(lines, i) ==
    LET before == {j \in 1..(i - 1) : lines[j].line # "key_value"}
        h == CHOOSE j \in before : \A k \in before : k <= j
    IN  IF before = {} THEN [path |-> <<>>, index |-> 0]
        ELSE [path |-> lines[h].path,
              index |-> IF lines[h].line = "array_table"
                        THEN Cardinality({j \in 1..h :
                                 /\ lines[j].line = "array_table"
                                 /\ lines[j].path = lines[h].path})
                        ELSE 0]
\* the values given for key in the table (path, index)
Lookup(lines, path, index, key) ==
    {lines[i].value : i \in {j \in DOMAIN lines :
        /\ lines[j].line = "key_value"
        /\ lines[j].key = key
        /\ SectionOf(lines, j) = [path |-> path, index |-> index]}}
\* the value of a field of a struct; a field that is missing or given twice
\* has no value, which no type reads
TomlField(lines, path, index, key) ==
    LET vs == Lookup(lines, path, index, key) IN
    IF Cardinality(vs) # 1 THEN NoTomlValue ELSE CHOOSE v \in vs : TRUE

\* toml::from_str::<EthereumBridgeParams>(text): the value, or Err
toml_from_str(lines) ==
    LET n == Cardinality({i \in DOMAIN lines :
                 /\ lines[i].line = "array_table"
                 /\ lines[i].path = <<"erc20_whitelist">>})
        inline == Lookup(lines, <<>>, 0, "erc20_whitelist")
        addr == [i \in 1..n |->
                    ParseTomlEthAddress(
                        TomlField(lines, <<"erc20_whitelist">>, i,
                                  "token_address"))]
        cap == [i \in 1..n |->
                   ParseTomlDenominatedAmount(
                       TomlField(lines, <<"erc20_whitelist">>, i,
                                 "token_cap"))]
        height == ParseTomlBlockHeight(
                      TomlField(lines, <<>>, 0, "eth_start_height"))
        confs == ParseTomlNonZeroU64(
                     TomlField(lines, <<>>, 0, "min_confirmations"))
        native == ParseTomlEthAddress(
                      TomlField(lines, <<"contracts">>, 0, "native_erc20"))
        baddr == ParseTomlEthAddress(
                     TomlField(lines, <<"contracts", "bridge">>, 0, "address"))
        bver == ParseTomlNonZeroU64(
                    TomlField(lines, <<"contracts", "bridge">>, 0, "version"))
    IN  IF \/ ~(IF n = 0 THEN inline = {TomlEmptyArray} ELSE inline = {})
           \/ \E i \in 1..n : ~IsOk(addr[i]) \/ ~IsOk(cap[i])
           \/ ~IsOk(height) \/ ~IsOk(confs)
           \/ ~IsOk(native) \/ ~IsOk(baddr) \/ ~IsOk(bver)
        THEN Err
        ELSE Ok([eth_start_height |-> Val(height),
                 min_confirmations |-> Val(confs),
                 erc20_whitelist |->
                     [i \in 1..n |-> [token_address |-> Val(addr[i]),
                                      token_cap |-> Val(cap[i])]],
                 contracts |-> [native_erc20 |-> Val(native),
                                bridge |-> [address |-> Val(baddr),
                                            version |-> Val(bver)]]])

\* ---- the round trip of test_round_trip_toml_serde as a state machine ----
TomlParamChoices ==
    { EthereumBridgeParams(h, m, wl, v) :
        h \in {0, 300},
        m \in {1, 100, TOML_INT_MAX, TOML_INT_MAX + 1, U64_MAX},
        v \in {1, 2, U64_MAX},
        wl \in WhitelistChoices }

\* toml: the step done last ("input", "to_string", "from_str"), the value,
\* what to_string returned and what from_str returned
TomlState(op, params, text, result) ==
    [op |-> op, params |-> params, text |-> text, result |-> result]

\* what the TOML machine leaves alone
tomlFrame == <<bridgeVars, pgfVars, ctxVars>>

SerializeToml ==
    /\ toml.op = "input"
    /\ toml' = TomlState("to_string", toml.params,
                         toml_to_string(toml.params), Err)
    /\ UNCHANGED tomlFrame

DeserializeToml ==
    /\ toml.op = "to_string"
    /\ IsOk(toml.text)
    /\ toml' = TomlState("from_str", toml.params, toml.text,
                         toml_from_str(Val(toml.text)))
    /\ UNCHANGED tomlFrame

TomlNext == SerializeToml \/ DeserializeToml

\* the context's and the TOML part's variables while another part runs
CtxIdle == minter = "none" /\ ctxOp = NoCtxOp
NoToml == TomlState("none", NoParams, Err, Err)
TomlIdle == toml = NoToml

PgfInit ==
    /\ \E t \in TreasuryChoices :
         balances = [a \in Accounts |-> IF a = PGF THEN t ELSE 0]
    /\ minted \in MintedChoices
    /\ ibcStore = [commitments |-> 0, events |-> <<>>]
    /\ payments \in PaymentChoices
    /\ stewards \in StewardChoices
    /\ chainParams \in ChainParamChoices
    /\ pass = Pass("idle", 0, 0, <<>>, <<>>, {}, 0, "none")
    /\ trace = <<>>
    /\ prevTrace = <<>>
    /\ clock = <<>>
    /\ BridgeIdle
    /\ CtxIdle
    /\ TomlIdle

SetStore(st) ==
    /\ balances' = st.balances
    /\ minted' = st.minted
    /\ ibcStore' = st.ibc

\* faulty variant: a failed treasury credit is logged and the pass goes on
StartPassSwallowError ==
    /\ pass.pc = "idle"
    /\ pass.no < MaxPasses
    /\ LET total_tokens == minted
           amount == PgfInflationAmount(total_tokens, chainParams)
           c == credit_tokens(CurStore, PGF, amount)
       IN  /\ SetStore(c.store)
           /\ trace' = <<Entry("mint", 0, PGF, amount, c.ok, CurStore, c.store,
                               NoMsg)>>
           /\ pass' = Pass("fundings", pass.no + 1, total_tokens,
                           SortById(payments), <<>>, {}, 0, "running")
    /\ prevTrace' = trace
    /\ UNCHANGED <<payments, stewards, chainParams, clock, notPgfVars>>
\* lines 31-60: read the parameters and the total, credit the treasury, load
\* and sort the obligations
StartPass ==
    /\ pass.pc = "idle"
    /\ pass.no < MaxPasses
    /\ LET total_tokens == minted
           amount == PgfInflationAmount(total_tokens, chainParams)
           c == credit_tokens(CurStore, PGF, amount)
       IN  /\ SetStore(c.store)
           /\ trace' = <<Entry("mint", 0, PGF, amount, c.ok, CurStore, c.store,
                               NoMsg)>>
           /\ pass' = IF c.ok
                      THEN Pass("fundings", pass.no + 1, total_tokens,
                                SortById(payments), <<>>, {}, 0, "running")
                      ELSE Pass("idle", pass.no + 1, total_tokens, <<>>, <<>>,
                                {}, 0, "Err")
    /\ prevTrace' = trace
    /\ UNCHANGED <<payments, stewards, chainParams, clock, notPgfVars>>

\* faulty variant: an error ends the loop
AfterFundingStopOnError(entry) ==
    /\ trace' = Append(trace, entry)
    /\ pass' = [pass EXCEPT !.pgf_fundings = IF entry.ok THEN Tail(@) ELSE <<>>]
\* faulty variant: a failed funding is tried a second time
AfterFundingRetryOnce(entry) ==
    /\ trace' = Append(trace, entry)
    /\ pass' = [pass EXCEPT !.pgf_fundings =
                   IF ~entry.ok /\ trace[Len(trace)].id # entry.id
                   THEN @ ELSE Tail(@)]
\* what the loop does after the body for one funding: go on with the next
AfterFunding(entry) ==
    /\ trace' = Append(trace, entry)
    /\ pass' = [pass EXCEPT !.pgf_fundings = Tail(@)]

\* faulty variant: what the treasury holds is paid when it holds too little
PayInternalPartial ==
    /\ pass.pc = "fundings"
    /\ pass.pgf_fundings # <<>>
    /\ Head(pass.pgf_fundings).detail.kind = "Internal"
    /\ LET funding == Head(pass.pgf_fundings)
           paid == IF balances[PGF] < funding.detail.amount
                   THEN balances[PGF] ELSE funding.detail.amount
           r == transfer(CurStore, PGF, funding.detail.target, paid)
       IN  /\ SetStore(r.store)
           /\ AfterFunding(Entry("funding", funding.id, funding.detail.target,
                                 funding.detail.amount, r.ok, CurStore,
                                 r.store, NoMsg))
    /\ UNCHANGED <<payments, stewards, chainParams, prevTrace, clock,
                   notPgfVars>>
\* lines 62-94, one iteration, PGFTarget::Internal
PayInternal ==
    /\ pass.pc = "fundings"
    /\ pass.pgf_fundings # <<>>
    /\ Head(pass.pgf_fundings).detail.kind = "Internal"
    /\ LET funding == Head(pass.pgf_fundings)
           r == transfer(CurStore, PGF, funding.detail.target,
                         funding.detail.amount)
       IN  /\ SetStore(r.store)
           /\ AfterFunding(Entry("funding", funding.id, funding.detail.target,
                                 funding.detail.amount, r.ok, CurStore,
                                 r.store, NoMsg))
    /\ UNCHANGED <<payments, stewards, chainParams, prevTrace, clock,
                   notPgfVars>>

\* lines 62-94, one iteration, PGFTarget::Ibc
PayIbc(now, late) ==
    /\ pass.pc = "fundings"
    /\ pass.pgf_fundings # <<>>
    /\ Head(pass.pgf_fundings).detail.kind = "Ibc"
    /\ LET funding == Head(pass.pgf_fundings)
           r == transfer_over_ibc(CurStore, chainParams, NativeToken, PGF,
                                  funding.detail, now, late)
       IN  /\ SetStore(r.store)
           /\ AfterFunding(Entry("funding", funding.id, funding.detail.target,
                                 funding.detail.amount, r.ok, CurStore,
                                 r.store, r.msg))
    /\ clock' = <<now>>
    /\ UNCHANGED <<payments, stewards, chainParams, prevTrace, notPgfVars>>

\* faulty variant: the total is read again after the treasury mint
BeginStewardsRereadTotal ==
    /\ pass.pc = "fundings"
    /\ pass.pgf_fundings = <<>>
    /\ LET ss == WithEntries(stewards) IN
         pass' = [pass EXCEPT
                    !.pc = "stewards",
                    !.stewards = ss,
                    !.entries = IF ss = <<>> THEN {}
                                ELSE DOMAIN Head(ss).reward_distribution,
                    !.pgf_steward_inflation =
                        PgfStewardInflation(minted, chainParams)]
    /\ UNCHANGED <<balances, minted, ibcStore, payments, stewards,
                   chainParams, trace, prevTrace, clock, notPgfVars>>
\* faulty variant: the pool is divided among the stewards
BeginStewardsDividePool ==
    /\ pass.pc = "fundings"
    /\ pass.pgf_fundings = <<>>
    /\ LET ss == WithEntries(stewards) IN
         pass' = [pass EXCEPT
                    !.pc = "stewards",
                    !.stewards = ss,
                    !.entries = IF ss = <<>> THEN {}
                                ELSE DOMAIN Head(ss).reward_distribution,
                    !.pgf_steward_inflation =
                        IF ss = <<>> THEN 0
                        ELSE PgfStewardInflation(pass.total_tokens, chainParams)
                                \div Len(ss)]
    /\ UNCHANGED <<balances, minted, ibcStore, payments, stewards,
                   chainParams, trace, prevTrace, clock, notPgfVars>>
\* lines 96-100: after the last funding, load the stewards and compute the
\* steward inflation from the total read at the start
BeginStewards ==
    /\ pass.pc = "fundings"
    /\ pass.pgf_fundings = <<>>
    /\ LET ss == WithEntries(stewards) IN
         pass' = [pass EXCEPT
                    !.pc = "stewards",
                    !.stewards = ss,
                    !.entries = IF ss = <<>> THEN {}
                                ELSE DOMAIN Head(ss).reward_distribution,
                    !.pgf_steward_inflation =
                        PgfStewardInflation(pass.total_tokens, chainParams)]
    /\ UNCHANGED <<balances, minted, ibcStore, payments, stewards,
                   chainParams, trace, prevTrace, clock, notPgfVars>>

\* faulty variant: a failed credit ends the loops over the stewards
PayStewardStopOnError(address) ==
    /\ pass.pc = "stewards"
    /\ pass.stewards # <<>>
    /\ address \in pass.entries
    /\ LET steward == Head(pass.stewards)
           reward_amount ==
               RewardAmount(pass.pgf_steward_inflation,
                            steward.reward_distribution[address])
           c == credit_tokens(CurStore, address, reward_amount)
           rest == pass.entries \ {address}
       IN  /\ SetStore(c.store)
           /\ trace' = Append(trace,
                  Entry("steward", steward.address, address, reward_amount,
                        c.ok, CurStore, c.store, NoMsg))
           /\ pass' = IF ~c.ok
                      THEN [pass EXCEPT !.stewards = <<>>, !.entries = {}]
                      ELSE IF rest # {} THEN [pass EXCEPT !.entries = rest]
                      ELSE [pass EXCEPT
                              !.stewards = Tail(@),
                              !.entries =
                                  IF Tail(pass.stewards) = <<>> THEN {}
                                  ELSE DOMAIN Head(Tail(pass.stewards))
                                                .reward_distribution]
    /\ UNCHANGED <<payments, stewards, chainParams, prevTrace, clock,
                   notPgfVars>>
\* lines 102-125, one iteration of the inner loop: the entries of a reward
\* distribution (a hash map) come in any order
PaySteward(address) ==
    /\ pass.pc = "stewards"
    /\ pass.stewards # <<>>
    /\ address \in pass.entries
    /\ LET steward == Head(pass.stewards)
           reward_amount ==
               RewardAmount(pass.pgf_steward_inflation,
                            steward.reward_distribution[address])
           c == credit_tokens(CurStore, address, reward_amount)
           rest == pass.entries \ {address}
       IN  /\ SetStore(c.store)
           /\ trace' = Append(trace,
                  Entry("steward", steward.address, address, reward_amount,
                        c.ok, CurStore, c.store, NoMsg))
           /\ pass' = IF rest # {} THEN [pass EXCEPT !.entries = rest]
                      ELSE [pass EXCEPT
                              !.stewards = Tail(@),
                              !.entries =
                                  IF Tail(pass.stewards) = <<>> THEN {}
                                  ELSE DOMAIN Head(Tail(pass.stewards))
                                                .reward_distribution]
    /\ UNCHANGED <<payments, stewards, chainParams, prevTrace, clock,
                   notPgfVars>>

\* line 127: Ok(())
FinishPass ==
    /\ pass.pc = "stewards"
    /\ pass.stewards = <<>>
    /\ pass' = [pass EXCEPT !.pc = "idle", !.result = "Ok"]
    /\ UNCHANGED <<balances, minted, ibcStore, payments, stewards,
                   chainParams, trace, prevTrace, clock, notPgfVars>>

PgfNext ==
    \/ StartPass
    \/ PayInternal
    \/ \E now \in 0..MaxNow : \E late \in BOOLEAN : PayIbc(now, late)
    \/ BeginStewards
    \/ \E address \in Accounts : PaySteward(address)
    \/ FinishPass

SpecPgf == PgfInit /\ [][PgfNext]_vars

\* the bridge machine starts on an empty storage; the PGF machine stays idle
PgfIdle ==
    /\ balances = [a \in Accounts |-> 0]
    /\ minted = 0
    /\ ibcStore = [commitments |-> 0, events |-> <<>>]
    /\ payments = <<>>
    /\ stewards = <<>>
    /\ chainParams = ChainParams(TRUE, {})
    /\ pass = Pass("idle", 0, 0, <<>>, <<>>, {}, 0, "none")
    /\ trace = <<>>
    /\ prevTrace = <<>>
    /\ clock = <<>>

BridgeInit ==
    /\ BridgeIdle
    /\ PgfIdle
    /\ CtxIdle
    /\ TomlIdle

\* the context starts on a storage where the supply is near the largest
\* amount, account A holds all or none of it, and the minter key is absent,
\* held by another address, or held by the IBC address already
CtxInit ==
    /\ minted = 2990
    /\ \E a \in {0, 2990} :
         balances = [x \in Accounts |-> IF x = "A" THEN a ELSE 0]
    /\ ibcStore = [commitments |-> 0, events |-> <<>>]
    /\ minter \in {"none", "A", IbcInternal}
    /\ ctxOp = NoCtxOp
    /\ payments = <<>>
    /\ stewards = <<>>
    /\ chainParams = ChainParams(TRUE, {})
    /\ pass = Pass("idle", 0, 0, <<>>, <<>>, {}, 0, "none")
    /\ trace = <<>>
    /\ prevTrace = <<>>
    /\ clock = <<>>
    /\ BridgeIdle
    /\ TomlIdle

SpecCtx == CtxInit /\ [][CtxNext]_vars

TomlInit ==
    /\ \E p \in TomlParamChoices : toml = TomlState("input", p, Err, Err)
    /\ BridgeIdle
    /\ PgfIdle
    /\ CtxIdle

SpecToml == TomlInit /\ [][TomlNext]_vars

SpecBridge == BridgeInit /\ [][BridgeNext]_vars


-----------------------------------------------------------------------------
(***************************************************************************)
(* Properties of the bridge parameter store (SpecBridge).                  *)
(***************************************************************************)
\* what the stored bytes under k are: "missing", "corrupt" or "good"
KeyState(k) ==
    IF ~has_key(bstore, k) THEN "missing"
    ELSE IF IsOk(Decode(k, bstore[k])) THEN "good" ELSE "corrupt"

\* the flag is there, decodes, and says the bridge is enabled by now
FlagEnabled ==
    /\ KeyState(active_key) = "good"
    /\ \/ bstore[active_key] = EncodeStatus(EnabledAtGenesis)
       \/ \E e \in 0..epoch : bstore[active_key] = EncodeStatus(EnabledAtEpoch(e))
\* the flag is absent, or is there, decodes and says the bridge is not active
FlagAbsentOrInactive ==
    \/ KeyState(active_key) = "missing"
    \/ bstore[active_key] = EncodeStatus(Disabled)
    \/ \E e \in (epoch + 1)..(MaxEpoch + 1) :
          bstore[active_key] = EncodeStatus(EnabledAtEpoch(e))

\* C1: a read that follows init_storage(p), with no write in between,
\* returns Some(c) with c's start height, confirmations and contracts those
\* of p, whatever p's whitelist and whatever storage held before.
C1_ReadAfterInit ==
    (bop.op = "read" /\ bop.fresh) =>
        /\ bop.result.tag = "Some"
        /\ bop.result.cfg.eth_start_height = bop.params.eth_start_height
        /\ bop.result.cfg.min_confirmations = bop.params.min_confirmations
        /\ bop.result.cfg.contracts.native_erc20 =
               bop.params.contracts.native_erc20
        /\ bop.result.cfg.contracts.bridge.address =
               bop.params.contracts.bridge.address
        /\ bop.result.cfg.contracts.bridge.version =
               bop.params.contracts.bridge.version
        /\ bop.result.cfg = OracleConfigFrom(bop.params)
C1_Witness ==
    /\ bop.op = "read" /\ bop.fresh
    /\ bop.nwrites = 2
    /\ bop.params.erc20_whitelist = <<DaiEntry, WnamEntry>>
    /\ bop.params.eth_start_height = 300
    /\ bop.params.min_confirmations = 100
    /\ bop.result.tag = "Some"

\* C2: with the flag present and enabled, a read panics whenever one of the
\* four keys is missing or does not decode; it returns neither Some nor None.
\* The panic names the first such key in reading order.
C2_PartialConfigPanics ==
    (bop.op = "read" /\ FlagEnabled
        /\ \E k \in ScalarKeys : KeyState(k) # "good") =>
        /\ bop.result.tag = "Panic"
        /\ bop.outcome = "panic"
        /\ \E i \in 1..4 :
             /\ \A j \in 1..(i - 1) : KeyState(ReadOrder[j]) = "good"
             /\ \/ KeyState(ReadOrder[i]) = "missing"
                   /\ bop.result.msg = "only partially configured"
                \/ KeyState(ReadOrder[i]) = "corrupt"
                   /\ bop.result.msg = "Could not read"
C2_Witness ==
    /\ bop.op = "read" /\ FlagEnabled
    /\ KeyState(min_confirmations_key) = "good"
    /\ KeyState(native_erc20_key) = "good"
    /\ KeyState(bridge_contract_key) = "corrupt"
    /\ KeyState(eth_start_height_key) = "good"
    /\ bop.result.msg = "Could not read"

\* C3: with the flag absent, or present and saying the bridge is not active,
\* a read returns None, does not panic and reads none of the four other
\* keys, whatever those hold.
C3_InactiveReadsNothing ==
    (bop.op = "read" /\ FlagAbsentOrInactive) =>
        /\ bop.result.tag = "None"
        /\ bop.outcome = "ok"
        /\ bop.result.keysRead \cap ScalarKeys = {}
C3_Witness ==
    /\ bop.op = "read"
    /\ KeyState(active_key) = "missing"
    /\ \E k \in ScalarKeys : KeyState(k) = "corrupt"
    /\ bop.result.tag = "None"

\* C7: init_storage panics exactly when some whitelist entry names the
\* native ERC20 address with a denomination other than
\* NATIVE_MAX_DECIMAL_PLACES; it ends in no other way than Ok or a panic.
HasNativeMismatch(p) ==
    \E i \in DOMAIN p.erc20_whitelist :
        /\ p.erc20_whitelist[i].token_address = p.contracts.native_erc20
        /\ p.erc20_whitelist[i].token_cap.denom # 6
C7_NativeDenomPanics ==
    bop.op = "init_storage" =>
        /\ bop.outcome \in {"ok", "panic"}
        /\ (bop.outcome = "panic") = HasNativeMismatch(bop.params)
C7_Witness ==
    /\ bop.op = "init_storage"
    /\ bop.outcome = "panic"
    /\ bop.params.erc20_whitelist = <<DaiEntry, WnamBadEntry>>


-----------------------------------------------------------------------------
(***************************************************************************)
(* Properties of the inflation pass (SpecPgf).                             *)
(***************************************************************************)
FundingEntries == SelectSeq(trace, LAMBDA e : e.kind = "funding")
StewardEntries == SelectSeq(trace, LAMBDA e : e.kind = "steward")
\* the pass returned Ok
PassOver == pass.pc = "idle" /\ pass.result = "Ok"
\* the loop over the obligations is over
FundingsOver == pass.pc = "stewards" \/ PassOver
FundingOf(id) == CHOOSE f \in Range(payments) : f.id = id
StewardOf(address) == CHOOSE s \in Range(stewards) : s.address = address

\* C4: a failed obligation does not stop the pass.  Only a failed treasury
\* mint makes the pass return Err; while the loop runs every stored
\* obligation is either attempted or still queued; when it is over each has
\* been attempted once; and an Internal obligation succeeds exactly when the
\* treasury held its amount at its turn, whatever failed before it.
C4_FailureDoesNotStopPass ==
    /\ pass.result = "Err" =>
          Len(trace) = 1 /\ trace[1].kind = "mint" /\ ~trace[1].ok
    /\ pass.pc = "fundings" =>
          Len(FundingEntries) + Len(pass.pgf_fundings) = Len(payments)
    /\ FundingsOver =>
          /\ Len(FundingEntries) = Len(payments)
          /\ \A f \in Range(payments) :
                \E i \in DOMAIN FundingEntries :
                    /\ FundingEntries[i].id = f.id
                    /\ FundingEntries[i].target = f.detail.target
                    /\ FundingEntries[i].amount = f.detail.amount
    /\ \A i \in DOMAIN FundingEntries :
          LET e == FundingEntries[i] IN
          FundingOf(e.id).detail.kind = "Internal" =>
              (e.ok <=> /\ e.pre.balances[PGF] >= e.amount
                        /\ e.pre.balances[e.target] + e.amount <= MAX_AMOUNT)
C4_Witness ==
    /\ PassOver
    /\ Len(FundingEntries) = 3
    /\ FundingEntries[1].ok
    /\ ~FundingEntries[2].ok
    /\ FundingEntries[3].ok

\* C5: a failed obligation leaves storage as it was before the attempt.
C5_FailedAttemptLeavesNoWrite ==
    \A i \in DOMAIN FundingEntries :
        ~FundingEntries[i].ok => FundingEntries[i].post = FundingEntries[i].pre

\* C6: the obligations are attempted in strictly ascending id order, whatever
\* their order in storage, and the ids attempted are those stored.
C6_AscendingIdOrder ==
    /\ \A i, j \in DOMAIN FundingEntries :
          i < j => FundingEntries[i].id < FundingEntries[j].id
    /\ FundingsOver =>
          {FundingEntries[i].id : i \in DOMAIN FundingEntries}
              = {f.id : f \in Range(payments)}
C6_Witness ==
    /\ payments = <<F3, F1, F2>>
    /\ FundingsOver
    /\ [i \in DOMAIN FundingEntries |-> FundingEntries[i].id] = <<1, 2, 3>>

\* the steward pool (a Dec) of the running pass, from the total at its start
StewardPoolOf(total) ==
    ((total * 10)
        * ((chainParams.stewards_inflation_rate * 100)
              \div (chainParams.epochs_per_year * 100))) \div 100
\* amount is pool * share cut to an amount: pool and share have two decimal
\* places and an amount has one
IsProductAmount(amount, pool, share) ==
    /\ 1000 * amount <= pool * share
    /\ pool * share < 1000 * (amount + 1)
StewardShare(e) == StewardOf(e.id).reward_distribution[e.target]
Credited(e) ==
    /\ e.post.balances = [e.pre.balances EXCEPT ![e.target] = @ + e.amount]
    /\ e.post.minted = e.pre.minted + e.amount
    /\ e.post.ibc = e.pre.ibc

\* C8 as claimed: every entry of every steward's distribution is credited
\* steward_pool * share.
C8_EveryEntryCredited ==
    \A i \in DOMAIN StewardEntries :
        LET e == StewardEntries[i] IN
        /\ IsProductAmount(e.amount, StewardPoolOf(trace[1].pre.minted),
                           StewardShare(e))
        /\ e.ok
        /\ Credited(e)
\* C8 as amended: every entry of every steward's distribution gets one
\* credit attempt; its amount is steward_pool * share cut to an amount when
\* that product is representable as a Dec and zero when it is not; the
\* recipient's balance grows by exactly that amount when the credit
\* succeeds and nothing is written when it fails.
C8_RewardIsPoolTimesShare ==
    /\ \A i \in DOMAIN StewardEntries :
          LET e == StewardEntries[i]
              pool == StewardPoolOf(trace[1].pre.minted)
          IN  /\ pool * StewardShare(e) <= DEC_MAX =>
                    IsProductAmount(e.amount, pool, StewardShare(e))
              /\ pool * StewardShare(e) > DEC_MAX => e.amount = 0
              /\ e.ok => Credited(e)
              /\ ~e.ok => e.post = e.pre
    /\ PassOver =>
          \A s \in Range(stewards) :
              \A a \in DOMAIN s.reward_distribution :
                  Cardinality({i \in DOMAIN StewardEntries :
                                  /\ StewardEntries[i].id = s.address
                                  /\ StewardEntries[i].target = a}) = 1
C8_Witness ==
    /\ PassOver
    /\ stewards = <<S1>>
    /\ trace[1].pre.minted = 2500
    /\ \E i, j \in DOMAIN StewardEntries :
          /\ StewardEntries[i].target = "A" /\ StewardEntries[i].amount = 30
          /\ StewardEntries[i].ok
          /\ StewardEntries[j].target = "B" /\ StewardEntries[j].amount = 20
          /\ StewardEntries[j].ok

\* C9: every pass begins by crediting the treasury with
\* total * (pgf_inflation_rate / epochs_per_year), total being the minted
\* balance at the start of the pass; the credit is attempted before any
\* obligation or steward, whether or not there are any; the pass goes on
\* only when it succeeded.
TreasuryInflationOf(total) ==
    (((total * 10)
        * ((chainParams.pgf_inflation_rate * 100)
              \div (chainParams.epochs_per_year * 100))) \div 100) \div 10
C9_TreasuryMintFirst ==
    /\ pass.no = 0 => trace = <<>>
    /\ pass.no > 0 =>
          /\ trace # <<>>
          /\ trace[1].kind = "mint"
          /\ trace[1].target = PGF
          /\ trace[1].amount = TreasuryInflationOf(trace[1].pre.minted)
          /\ pass.total_tokens = trace[1].pre.minted
          /\ \A i \in 2..Len(trace) : trace[i].kind # "mint"
          /\ trace[1].ok => Credited(trace[1])
          /\ ~trace[1].ok =>
                Len(trace) = 1 /\ pass.result = "Err"
                /\ trace[1].post = trace[1].pre
C9_Witness ==
    /\ PassOver
    /\ payments = <<>>
    /\ stewards = <<>>
    /\ trace[1].ok
    /\ trace[1].pre.minted = 2500
    /\ trace[1].amount = 75
    /\ balances[PGF] = 225

\* C10: an Internal obligation is paid in full or not at all: its attempt
\* either moves exactly its amount from the treasury to the recipient, or
\* fails and changes nothing; no balance is ever negative.
C10_InternalAllOrNothing ==
    /\ \A a \in Accounts : balances[a] >= 0
    /\ \A i \in DOMAIN FundingEntries :
          LET e == FundingEntries[i] IN
          FundingOf(e.id).detail.kind = "Internal" =>
              \/ /\ e.ok
                 /\ e.pre.balances[PGF] >= e.amount
                 /\ e.post.balances =
                       [[e.pre.balances EXCEPT ![PGF] = @ - e.amount]
                           EXCEPT ![e.target] = @ + e.amount]
                 /\ e.post.minted = e.pre.minted
                 /\ e.post.ibc = e.pre.ibc
              \/ /\ ~e.ok
                 /\ e.post = e.pre
C10_Witness ==
    \E i \in DOMAIN FundingEntries :
        /\ FundingOf(FundingEntries[i].id).detail.kind = "Internal"
        /\ ~FundingEntries[i].ok
        /\ FundingEntries[i].pre.balances[PGF] > 0
        /\ FundingEntries[i].pre.balances[PGF] < FundingEntries[i].amount

-----------------------------------------------------------------------------
(***************************************************************************)
(* Properties of the inflation pass across passes, and of its order.       *)
(***************************************************************************)
PrevFundingEntries == SelectSeq(prevTrace, LAMBDA e : e.kind = "funding")
\* how often the running pass has attempted the obligation id
Attempts(id) ==
    Cardinality({i \in DOMAIN FundingEntries : FundingEntries[i].id = id})

\* the pass has attempted every stored obligation once, and those that
\* failed in the pass before it among them
AttemptedOnce ==
    /\ \A f \in Range(payments) : Attempts(f.id) <= 1
    /\ \A i \in DOMAIN FundingEntries :
          \E f \in Range(payments) : f.id = FundingEntries[i].id
    /\ FundingsOver =>
          /\ \A f \in Range(payments) : Attempts(f.id) = 1
          /\ \A i \in DOMAIN PrevFundingEntries :
                ~PrevFundingEntries[i].ok =>
                    Attempts(PrevFundingEntries[i].id) = 1

\* C11: within a pass each stored obligation is attempted exactly once, with
\* no second attempt after a failure; no step of a pass changes the stored
\* obligations; so an obligation that failed in one pass is attempted again
\* in the next.
C11_OncePerPassAndKept ==
    []AttemptedOnce /\ [][payments' = payments]_vars
\* an obligation failed in the first pass and the second pass attempted it
C11_Witness ==
    /\ pass.no = 2
    /\ FundingsOver
    /\ \E i \in DOMAIN PrevFundingEntries :
          /\ ~PrevFundingEntries[i].ok
          /\ \E j \in DOMAIN FundingEntries :
                /\ FundingEntries[j].id = PrevFundingEntries[i].id
                /\ FundingEntries[j].ok

\* the (steward, recipient) pairs of the stored stewards
RewardPairs ==
    UNION {{<<s.address, a>> : a \in DOMAIN s.reward_distribution} :
           s \in Range(stewards)}
CreditedPairs ==
    {<<StewardEntries[i].id, StewardEntries[i].target>> :
        i \in DOMAIN StewardEntries}

\* C12: in a pass every obligation attempt comes before any steward credit,
\* and every entry of every steward's reward distribution is credited (or
\* its credit attempted) exactly once, whatever failed before it.
C12_FundingsBeforeStewards ==
    /\ \A i, j \in DOMAIN trace :
          trace[i].kind = "funding" /\ trace[j].kind = "steward" => i < j
    /\ StewardEntries # <<>> => Len(FundingEntries) = Len(payments)
    /\ CreditedPairs \subseteq RewardPairs
    /\ Len(StewardEntries) = Cardinality(CreditedPairs)
    /\ PassOver => CreditedPairs = RewardPairs
\* a pass returned Ok after a failed obligation and a failed steward credit
\* that was followed by another credit
C12_Witness ==
    /\ PassOver
    /\ \E i \in DOMAIN FundingEntries : ~FundingEntries[i].ok
    /\ \E i, j \in DOMAIN StewardEntries :
          i < j /\ ~StewardEntries[i].ok /\ StewardEntries[j].ok
    /\ Len(StewardEntries) >= 3

-----------------------------------------------------------------------------
(***************************************************************************)
(* More properties of the bridge parameter store (SpecBridge).             *)
(***************************************************************************)
\* C13: read_native_erc20_address never aborts and reads one key; it returns
\* Ok with the stored address exactly when native_erc20_key holds a value that
\* decodes, whatever the enabled flag is; the error says "not initialized"
\* when the key is absent and "Failed to read storage" when the read fails.
C13_NativeAddressIsTypedResult ==
    bop.op = "read_native_erc20_address" =>
        /\ bop.outcome = "ok"
        /\ bop.result.tag \in {"Ok", "Err"}
        /\ bop.result.keysRead = {native_erc20_key}
        /\ bop.result.tag = "Ok" <=> KeyState(native_erc20_key) = "good"
        /\ bop.result.tag = "Ok" =>
              /\ bop.result.cfg = Val(DecodeEthAddress(bstore[native_erc20_key]))
              /\ bop.fresh => bop.result.cfg = bop.params.contracts.native_erc20
        /\ KeyState(native_erc20_key) = "missing" =>
              bop.result.msg = "not initialized"
        /\ KeyState(native_erc20_key) = "corrupt" =>
              bop.result.msg = "Failed to read storage"
\* the address was returned although the enabled flag is absent
C13_Witness ==
    /\ bop.op = "read_native_erc20_address"
    /\ bop.result.tag = "Ok"
    /\ bop.result.cfg = Wnam
    /\ ~has_key(bstore, active_key)

-----------------------------------------------------------------------------
(***************************************************************************)
(* Properties of the IBC dispatch inside the pass (SpecPgf).               *)
(***************************************************************************)
\* the latest step was the attempt of an Ibc obligation
LastIsIbcAttempt ==
    /\ trace # <<>>
    /\ trace[Len(trace)].kind = "funding"
    /\ FundingOf(trace[Len(trace)].id).detail.kind = "Ibc"

\* the message a dispatch must have built for the obligation f from the clock
\* reading n
IsTransferMsgOf(msg, f, n) ==
    /\ msg.timeout_height_on_b = "Never"
    /\ msg.timeout_timestamp_on_b = n + chainParams.epoch_duration.min_duration
    /\ msg.packet_data.memo = ""
    /\ msg.packet_data.sender = PGF
    /\ msg.packet_data.receiver = f.detail.target
    /\ msg.packet_data.token = [denom |-> NativeToken, amount |-> f.detail.amount]
    /\ msg.port_id_on_a = f.detail.port_id
    /\ msg.chan_id_on_a = f.detail.channel_id

\* C14: a dispatch reads the clock once; the message it builds has timeout
\* height Never, timeout timestamp = that reading + min_duration, an empty
\* memo, and the sender, receiver, amount, port and channel it was given.  A
\* message is built exactly when the epoch duration is stored and the
\* timestamp is one tendermint's Time can hold.
C14_MessageFromOneClockReading ==
    /\ LastIsIbcAttempt =>
          LET e == trace[Len(trace)]
              f == FundingOf(e.id)
          IN  /\ Len(clock) = 1
              /\ e.msg # NoMsg => IsTransferMsgOf(e.msg, f, clock[1])
              /\ e.msg # NoMsg <=>
                    /\ chainParams.epoch_duration.present
                    /\ clock[1] + chainParams.epoch_duration.min_duration
                          <= TM_TIME_MAX
              /\ e.msg = NoMsg => ~e.ok /\ e.post = e.pre
    /\ \A i \in DOMAIN FundingEntries :
          LET e == FundingEntries[i] IN
          FundingOf(e.id).detail.kind = "Ibc" /\ e.msg # NoMsg =>
              \E n \in 0..MaxNow : IsTransferMsgOf(e.msg, FundingOf(e.id), n)
\* an Ibc obligation was sent with the clock at 1
C14_Witness ==
    /\ LastIsIbcAttempt
    /\ trace[Len(trace)].ok
    /\ clock = <<1>>
    /\ trace[Len(trace)].msg.timeout_timestamp_on_b = 11
    /\ trace[Len(trace)].msg.packet_data.receiver = "cosmos1r"

-----------------------------------------------------------------------------
(***************************************************************************)
(* Properties of the IBC protocol context (SpecCtx).                       *)
(***************************************************************************)
\* C15: after a successful mint_token the target's balance has grown by the
\* amount and the minter key holds the IBC internal address, whatever it held
\* before; when the credit fails the call returns the error and the minter
\* key (and all else) is as before.
C15_MintSetsMinter ==
    ctxOp.op = "mint_token" =>
        LET target == ctxOp.args[1]
            amount == ctxOp.args[2]
        IN  /\ ctxOp.outcome \in {"ok", "err"}
            /\ ctxOp.outcome = "ok" =>
                  /\ balances[target] = ctxOp.pre.balances[target] + amount
                  /\ \A a \in Accounts \ {target} :
                        balances[a] = ctxOp.pre.balances[a]
                  /\ minter = IbcInternal
            /\ ctxOp.outcome = "err" =>
                  /\ minter = ctxOp.pre.minter
                  /\ balances = ctxOp.pre.balances
                  /\ minted = ctxOp.pre.minted
            /\ ctxOp.outcome = "err" <=>
                  \/ ctxOp.pre.balances[target] + amount > MAX_AMOUNT
                  \/ ctxOp.pre.minted + amount > MAX_AMOUNT
\* a mint succeeded where another address was the minter before
C15_Witness ==
    /\ ctxOp.op = "mint_token"
    /\ ctxOp.outcome = "ok"
    /\ ctxOp.args[2] = 5
    /\ ctxOp.pre.minter = "A"
    /\ minter = IbcInternal

\* C16: handle_masp_tx aborts for every input; it never returns and leaves
\* storage and the event buffer as they were.
C16_MaspAlwaysAborts ==
    ctxOp.op = "handle_masp_tx" =>
        /\ ctxOp.outcome = "panic"
        /\ CurCtxStore = ctxOp.pre
\* the call aborted on a context that had emitted an event
C16_Witness ==
    /\ ctxOp.op = "handle_masp_tx"
    /\ ctxOp.outcome = "panic"
    /\ ctxOp.args = <<"tx2", "pin">>
    /\ ibcStore.events # <<>>

\* C20: emit_ibc_event returns Ok and puts the event into the event buffer,
\* keeping what was there and touching nothing else; get_ibc_events(t) returns
\* the buffered events of type t, all of them and no other; so every event of
\* type t emitted so far is among those returned.
C20_EventsBufferedAndFiltered ==
    /\ ctxOp.op = "emit_ibc_event" =>
          /\ ctxOp.outcome = "ok"
          /\ Range(ibcStore.events) =
                Range(ctxOp.pre.ibc.events) \cup {ctxOp.args[1]}
          /\ ibcStore.events[Len(ibcStore.events)] = ctxOp.args[1]
          /\ CurCtxStore = [ctxOp.pre EXCEPT !.ibc.events = ibcStore.events]
    /\ ctxOp.op = "get_ibc_events" =>
          /\ ctxOp.outcome = "ok"
          /\ Range(ctxOp.result) =
                {e \in Range(ibcStore.events) : e.event_type = ctxOp.args[1]}
          /\ \A e \in ctxOp.emitted :
                e.event_type = ctxOp.args[1] => e \in Range(ctxOp.result)
          /\ CurCtxStore = ctxOp.pre
\* two of three buffered events were of the type asked for and were returned
C20_Witness ==
    /\ ctxOp.op = "get_ibc_events"
    /\ ctxOp.args[1] = "send_packet"
    /\ Len(ibcStore.events) = 3
    /\ Cardinality(Range(ctxOp.result)) = 2
    /\ \E e \in Range(ibcStore.events) : e.event_type # "send_packet"

-----------------------------------------------------------------------------
(***************************************************************************)
(* The treasury credit (SpecPgf).                                          *)
(***************************************************************************)
\* C18: when the credit of the treasury inflation fails, the pass returns
\* that error at once: it attempts no obligation and credits no steward, and
\* storage is as the pass found it.  No pass goes on after a failed credit.
C18_TreasuryFailureAbortsPass ==
    trace # <<>> =>
        /\ trace[1].kind = "mint"
        /\ ~trace[1].ok =>
              /\ pass.pc = "idle"
              /\ pass.result = "Err"
              /\ trace = <<trace[1]>>
              /\ FundingEntries = <<>> /\ StewardEntries = <<>>
              /\ CurStore = trace[1].pre
        /\ trace[1].ok => pass.result # "Err"
\* the credit failed in a pass that had obligations and stewards to pay
C18_Witness ==
    /\ pass.result = "Err"
    /\ ~trace[1].ok
    /\ Len(payments) = 3
    /\ Len(stewards) >= 2
    /\ balances[PGF] >= 150

-----------------------------------------------------------------------------
(***************************************************************************)
(* What init_storage leaves in storage (SpecBridge).                       *)
(***************************************************************************)
\* the latest operation was an init_storage that returned
InitCompleted == bop.op = "init_storage" /\ bop.outcome = "ok"
\* the keys in storage under the asset addr
KeysOfAsset(addr) ==
    {k \in DOMAIN bstore : k[1] = "erc20" /\ k[2] = addr}
\* the three keys of the entry e hold e's values
EntryStored(e) ==
    /\ KeysOfAsset(e.token_address) =
          {WhitelistKey(e.token_address, suffix) :
              suffix \in {"whitelisted", "cap", "denom"}}
    /\ Cardinality(KeysOfAsset(e.token_address)) = 3
    /\ bstore[WhitelistKey(e.token_address, "whitelisted")] = EncodeBool(TRUE)
    /\ bstore[WhitelistKey(e.token_address, "cap")] =
          EncodeAmount(e.token_cap.amount)
    /\ bstore[WhitelistKey(e.token_address, "denom")] =
          EncodeDenom(e.token_cap.denom)
\* the flag and the four scalar keys hold the values of p
ScalarsStored(p) ==
    /\ bstore[active_key] = EncodeStatus(EnabledAtGenesis)
    /\ bstore[min_confirmations_key] = EncodeNonZeroU64(p.min_confirmations)
    /\ bstore[native_erc20_key] = EncodeEthAddress(p.contracts.native_erc20)
    /\ bstore[bridge_contract_key] = EncodeContract(p.contracts.bridge)
    /\ bstore[eth_start_height_key] = EncodeBlockHeight(p.eth_start_height)
\* on a storage that was empty, nothing else is there
NothingElseStored(p) ==
    bop.nwrites = 1 =>
        DOMAIN bstore =
            BridgeKeys \cup
            UNION {KeysOfAsset(p.erc20_whitelist[i].token_address) :
                      i \in DOMAIN p.erc20_whitelist}
\* no later entry of the whitelist wl names the asset of its i-th entry
LastOfItsAsset(wl, i) ==
    \A j \in DOMAIN wl :
        j > i => wl[j].token_address # wl[i].token_address

\* what the whitelist loop has written when it has done the i-th entry of wl
WrittenUpTo(wl, i, native_erc20) ==
    WhitelistLoop(<<>>, SubSeq(wl, 1, i), native_erc20).store
\* the i-th turn of the loop wrote the three keys of the i-th entry
EntryWritten(wl, i, native_erc20) ==
    LET e == wl[i]
        s == WrittenUpTo(wl, i, native_erc20)
    IN  /\ s[WhitelistKey(e.token_address, "whitelisted")] = EncodeBool(TRUE)
        /\ s[WhitelistKey(e.token_address, "cap")] =
              EncodeAmount(e.token_cap.amount)
        /\ s[WhitelistKey(e.token_address, "denom")] =
              EncodeDenom(e.token_cap.denom)
        /\ Cardinality(DOMAIN s \ DOMAIN WrittenUpTo(wl, i - 1, native_erc20))
              \in {0, 3}

\* C19: a completed init_storage(p) has written the flag (enabled at genesis)
\* and the four scalar keys with p's values and, for every whitelist entry,
\* the three keys whitelisted = true, cap and denom under the entry's asset,
\* and no other key under an asset.  Keys of distinct assets are distinct:
\* storage then holds, under every asset, what the last entry naming that
\* asset wrote, and on a storage that was empty nothing else.
C19_ThreeKeysPerEntry ==
    InitCompleted =>
        /\ ScalarsStored(bop.params)
        /\ NothingElseStored(bop.params)
        /\ \A i \in DOMAIN bop.params.erc20_whitelist :
              LET wl == bop.params.erc20_whitelist IN
              /\ EntryWritten(wl, i, bop.params.contracts.native_erc20)
              /\ Cardinality(KeysOfAsset(wl[i].token_address)) = 3
              /\ LastOfItsAsset(wl, i) => EntryStored(wl[i])
\* a whitelist of two assets was written to an empty storage
C19_Witness ==
    /\ InitCompleted
    /\ bop.nwrites = 1
    /\ bop.params.erc20_whitelist = <<DaiEntry, WnamEntry>>
    /\ EntryStored(DaiEntry) /\ EntryStored(WnamEntry)
    /\ Cardinality(DOMAIN bstore) = 11

-----------------------------------------------------------------------------
(***************************************************************************)
(* The TOML round trip (SpecToml).                                         *)
(***************************************************************************)
\* the integers of p are ones a TOML text can hold
InTomlRange(p) ==
    /\ p.min_confirmations <= TOML_INT_MAX
    /\ p.contracts.bridge.version <= TOML_INT_MAX

-----------------------------------------------------------------------------
(***************************************************************************)
(* The steward loops again (SpecPgf).                                      *)
(***************************************************************************)
\* steward_pool * share is not representable as a Dec
NotRepresentable(e) ==
    StewardPoolOf(trace[1].pre.minted) * StewardShare(e) > DEC_MAX
\* every (steward, recipient) pair of the stored stewards has one attempt
EveryPairAttemptedOnce ==
    \A s \in Range(stewards) :
        \A a \in DOMAIN s.reward_distribution :
            Cardinality({i \in DOMAIN StewardEntries :
                            /\ StewardEntries[i].id = s.address
                            /\ StewardEntries[i].target = a}) = 1

\* C21: when steward_pool * share is not representable, the reward of that
\* entry is zero and a credit of zero to its recipient is attempted, which
\* changes no balance; the pass does not return an error, and when it is
\* over every entry of every steward, the ones after it included, has had
\* its attempt.
C21_UnrepresentableRewardIsZero ==
    \A i \in DOMAIN StewardEntries :
        LET e == StewardEntries[i] IN
        NotRepresentable(e) =>
            /\ e.amount = 0
            /\ e.post.balances = e.pre.balances
            /\ e.post.minted = e.pre.minted
            /\ pass.result # "Err"
            /\ pass.pc = "stewards" \/ PassOver
            /\ PassOver => EveryPairAttemptedOnce
\* S4's share of 50.00 is first, and S1's two entries are credited after it
C21_Witness ==
    /\ PassOver
    /\ stewards = <<S4, S1>>
    /\ Len(StewardEntries) = 3
    /\ StewardEntries[1].id = "S4"
    /\ NotRepresentable(StewardEntries[1])
    /\ StewardEntries[1].amount = 0
    /\ StewardEntries[2].id = "S1" /\ StewardEntries[2].amount > 0
    /\ StewardEntries[2].ok
    /\ StewardEntries[3].id = "S1" /\ StewardEntries[3].amount > 0
    /\ StewardEntries[3].ok

\* the reward of entry e computed from a total supply of total
IsRewardFrom(e, total) ==
    IF StewardPoolOf(total) * StewardShare(e) > DEC_MAX
    THEN e.amount = 0
    ELSE IsProductAmount(e.amount, StewardPoolOf(total), StewardShare(e))

\* C22: within one pass the total supply is read once, before the treasury
\* mint (it is the minted balance the first entry of the trace starts
\* from); the treasury inflation and the steward pool are both computed
\* from it, and so is every steward reward, whatever the minted balance has
\* become by the time of its credit.
C22_OneSupplySnapshot ==
    (pass.no > 0 /\ trace[1].ok) =>
        LET base == trace[1].pre.minted IN
        /\ pass.total_tokens = base
        /\ trace[1].amount = TreasuryInflationOf(base)
        /\ FundingsOver => pass.pgf_steward_inflation = StewardPoolOf(base)
        /\ \A i \in DOMAIN StewardEntries :
              IsRewardFrom(StewardEntries[i], base)
\* a reward was credited that differs from the one the minted balance at
\* the time of its credit would give, after the mint, a paid obligation and
\* earlier steward credits
C22_Witness ==
    /\ PassOver
    /\ \E i \in DOMAIN StewardEntries :
          LET e == StewardEntries[i] IN
          /\ e.ok
          /\ e.amount > 0
          /\ e.pre.minted > trace[1].post.minted
          /\ ~IsRewardFrom(e, e.pre.minted)
    /\ \E j \in DOMAIN FundingEntries : FundingEntries[j].ok

-----------------------------------------------------------------------------
(***************************************************************************)
(* The accounting of one pass (SpecPgf).                                   *)
(***************************************************************************)
\* the sum of the amounts of the successful entries of a part of the trace
RECURSIVE SumSucceeded(_)
SumSucceeded(es) ==
    IF es = <<>> THEN 0
    ELSE (IF Head(es).ok THEN Head(es).amount ELSE 0) + SumSucceeded(Tail(es))
RECURSIVE SumOver(_, _)
SumOver(b, as) ==
    IF as = {} THEN 0
    ELSE LET a == CHOOSE x \in as : TRUE IN b[a] + SumOver(b, as \ {a})
\* the sum of all native-token balances
TotalBalance(b) == SumOver(b, Accounts)
\* the obligations are all Internal and the treasury receives nothing
TreasuryOnlyPays ==
    /\ \A i \in DOMAIN payments :
          payments[i].detail.kind = "Internal" /\ payments[i].detail.target # PGF
    /\ \A i \in DOMAIN stewards :
          PGF \notin DOMAIN stewards[i].reward_distribution
\* the two equations of the pass so far
PassAccounts ==
    LET before == trace[1].pre
        treasury_inflation == TreasuryInflationOf(before.minted)
    IN  /\ balances[PGF] = before.balances[PGF] + treasury_inflation
                              - SumSucceeded(FundingEntries)
        /\ TotalBalance(balances) = TotalBalance(before.balances)
                              + treasury_inflation
                              + SumSucceeded(StewardEntries)

\* C23 as claimed: for every pass whose obligations are all Internal and in
\* which the treasury is no recipient, the treasury ends with its balance
\* before plus treasury_inflation minus the obligations paid, and the sum of
\* the balances grows by treasury_inflation plus the rewards credited.
C23_PassAccountsAnyPass ==
    (pass.no > 0 /\ pass.pc = "idle" /\ TreasuryOnlyPays) => PassAccounts
\* C23, amended: the same two equations for every such pass in which the
\* credit of the treasury succeeded (a pass whose treasury credit fails is
\* aborted and changes no balance); they hold after every step of the pass
\* for the obligations and rewards attempted so far, and so at its end.
C23_PassAccountsAfterMint ==
    (pass.no > 0 /\ trace[1].ok /\ TreasuryOnlyPays) => PassAccounts
\* a pass with an obligation paid, one that failed and rewards credited
C23_Witness ==
    /\ PassOver
    /\ TreasuryOnlyPays
    /\ \E i, j \in DOMAIN FundingEntries :
          FundingEntries[i].ok /\ ~FundingEntries[j].ok
    /\ \E i \in DOMAIN StewardEntries :
          StewardEntries[i].ok /\ StewardEntries[i].amount > 0
    /\ balances[PGF] < trace[1].post.balances[PGF]

\* the sum of the shares of one steward's distribution (a Dec)
ShareSum(s) == SumOver(s.reward_distribution, DOMAIN s.reward_distribution)
\* the shares of every stored steward sum to the same s
UniformShares == \A i, j \in DOMAIN stewards :
                     ShareSum(stewards[i]) = ShareSum(stewards[j])
\* N * s * steward_pool, with four decimal places
NTimesShareOfPool ==
    IF stewards = <<>> THEN 0
    ELSE Len(stewards) * ShareSum(stewards[1])
            * StewardPoolOf(trace[1].pre.minted)
\* the total credited to steward recipients is N * s * steward_pool, each
\* reward being cut to a token amount (less than one unit lost per entry);
\* it is above the pool when N * s * steward_pool is, by that margin
TotalIsNTimesShare ==
    LET total == 1000 * SumSucceeded(StewardEntries)
        lost == 1000 * Len(StewardEntries)
        pool == 100 * StewardPoolOf(trace[1].pre.minted)
    IN  /\ total <= NTimesShareOfPool
        /\ NTimesShareOfPool < total + lost \/ (lost = 0 /\ total = 0)
        /\ NTimesShareOfPool >= pool + lost => total > pool

\* C24 as claimed: the pool is not divided among the stewards and shares
\* are not capped; with N stewards whose shares each sum to s, the total
\* credited in one pass is N * s * steward_pool.
C24_TotalIsNTimesShare ==
    (PassOver /\ UniformShares) => TotalIsNTimesShare
\* C24, amended: the same, for a pass in which every product
\* steward_pool * share is representable and every steward credit succeeds.
C24_TotalWhenAllCredited ==
    (/\ PassOver
     /\ UniformShares
     /\ \A i \in DOMAIN StewardEntries :
           StewardEntries[i].ok /\ ~NotRepresentable(StewardEntries[i]))
        => TotalIsNTimesShare
\* two stewards whose shares each sum to 1: twice the pool was credited
C24_Witness ==
    /\ PassOver
    /\ stewards = <<S1, S6>>
    /\ Len(StewardEntries) = 3
    /\ \A i \in DOMAIN StewardEntries : StewardEntries[i].ok
    /\ trace[1].pre.minted = 2500
    /\ SumSucceeded(StewardEntries) = 100
    /\ AmountFromDec(pass.pgf_steward_inflation) = 50

-----------------------------------------------------------------------------
(***************************************************************************)
(* init_storage: what an abort leaves, and what a second call leaves       *)
(* (SpecBridge).                                                           *)
(***************************************************************************)
InitAborted == bop.op = "init_storage" /\ bop.outcome = "panic"
\* the position of the entry init_storage(p) panics at
Offender(p) ==
    CHOOSE i \in DOMAIN p.erc20_whitelist :
        /\ NativeDenomMismatch(p.erc20_whitelist[i], p.contracts.native_erc20)
        /\ \A j \in 1..(i - 1) :
              ~NativeDenomMismatch(p.erc20_whitelist[j],
                                   p.contracts.native_erc20)
\* the storage s holds the flag and the four scalars of p
ScalarsIn(s, p) ==
    /\ BridgeKeys \subseteq DOMAIN s
    /\ s[active_key] = EncodeStatus(EnabledAtGenesis)
    /\ s[min_confirmations_key] = EncodeNonZeroU64(p.min_confirmations)
    /\ s[native_erc20_key] = EncodeEthAddress(p.contracts.native_erc20)
    /\ s[bridge_contract_key] = EncodeContract(p.contracts.bridge)
    /\ s[eth_start_height_key] = EncodeBlockHeight(p.eth_start_height)
\* the storage s holds the three keys of the entry e
EntryIn(s, e) ==
    /\ {WhitelistKey(e.token_address, suffix) :
           suffix \in {"whitelisted", "cap", "denom"}} \subseteq DOMAIN s
    /\ s[WhitelistKey(e.token_address, "whitelisted")] = EncodeBool(TRUE)
    /\ s[WhitelistKey(e.token_address, "cap")] =
          EncodeAmount(e.token_cap.amount)
    /\ s[WhitelistKey(e.token_address, "denom")] =
          EncodeDenom(e.token_cap.denom)
\* the key k is in the same state in the storages s and t
SameAt(s, t, k) ==
    /\ (k \in DOMAIN s) = (k \in DOMAIN t)
    /\ k \in DOMAIN s => s[k] = t[k]
\* what init_storage(p) has made of the storage before when it panics
PartlyWritten(before, after, p) ==
    LET wl == p.erc20_whitelist
        n == Offender(p)
        done == {wl[j].token_address : j \in 1..(n - 1)}
    IN  /\ ScalarsIn(after, p)
        /\ \A j \in 1..(n - 1) :
              (\A l \in (j + 1)..(n - 1) :
                    wl[l].token_address # wl[j].token_address)
                 => EntryIn(after, wl[j])
        /\ \A j \in n..Len(wl) :
              wl[j].token_address \notin done =>
                 \A suffix \in {"whitelisted", "cap", "denom"} :
                    SameAt(before, after,
                           WhitelistKey(wl[j].token_address, suffix))
        /\ \A k \in DOMAIN before \cup DOMAIN after :
              (k \notin BridgeKeys /\ k[2] \notin done) =>
                 SameAt(before, after, k)

\* C25: init_storage is not atomic with respect to its panic.  The step in
\* which it panics on a native-asset decimal mismatch has written the
\* enabled flag, the four scalar keys and the three keys of every entry
\* before the offending one, and has written neither the keys of the
\* offending entry, nor those of later entries, nor the storage of the
\* bridge and bridge-pool VPs.
C25_AbortLeavesPartialWrites ==
    [][InitAborted' =>
          /\ PartlyWritten(bstore, bstore', bop'.params)
          /\ vpStorage' = vpStorage]_vars
\* on an empty storage: Dai's keys are written, the offending Wnam entry's
\* are not, and no VP storage is initialised
C25_Witness ==
    /\ InitAborted
    /\ bop.nwrites = 1
    /\ bop.params.erc20_whitelist = <<DaiEntry, WnamBadEntry>>
    /\ ScalarsIn(bstore, bop.params)
    /\ EntryIn(bstore, DaiEntry)
    /\ \A suffix \in {"whitelisted", "cap", "denom"} :
          WhitelistKey(Wnam, suffix) \notin DOMAIN bstore
    /\ vpStorage = {}

\* the assets a whitelist names
AssetsOf(wl) == {wl[i].token_address : i \in DOMAIN wl}

\* C26: init_storage writes keys and deletes none.  When init_storage(p2)
\* follows a completed init_storage(p1), every key stored before is still
\* stored, the scalar keys hold p2's values, and every asset whitelisted by
\* p1 and absent from p2's whitelist is still stored as whitelisted, with
\* p1's cap and denomination.
C26_SecondInitKeepsOldAssets ==
    [][(/\ InitCompleted
        /\ bop'.op = "init_storage"
        /\ bop'.nwrites = bop.nwrites + 1) =>
          LET p1 == bop.params
              p2 == bop'.params
          IN  /\ DOMAIN bstore \subseteq DOMAIN bstore'
              /\ ScalarsIn(bstore', p2)
              /\ \A i \in DOMAIN p1.erc20_whitelist :
                    (/\ LastOfItsAsset(p1.erc20_whitelist, i)
                     /\ p1.erc20_whitelist[i].token_address
                           \notin AssetsOf(p2.erc20_whitelist))
                       => EntryIn(bstore', p1.erc20_whitelist[i])]_vars
\* Dai was whitelisted by the first call only and is still stored after the
\* second, next to the scalars and the asset of the second
C26_Witness ==
    /\ InitCompleted
    /\ bop.nwrites = 2
    /\ bop.params.erc20_whitelist = <<WnamEntry>>
    /\ bop.params.eth_start_height = 300
    /\ ScalarsIn(bstore, bop.params)
    /\ EntryIn(bstore, WnamEntry)
    /\ EntryIn(bstore, DaiEntry)

=============================================================================
